---- MODULE Spec2Model ----
(***************************************************************************)
(* Model of the extraction core of ying-ju-crawler: the intermediate value *)
(* (value.rs), the step executors (executor.rs, selector/*.rs), the field  *)
(* engine (engine.rs) and the rule validator (src/runtime/validation.rs).  *)
(***************************************************************************)
EXTENDS Integers, Sequences, FiniteSets, TLC

(***************************************************************************)
(* Bounds of the model.                                                    *)
(***************************************************************************)
\* longest list of fallback chains of a FieldExtractor
MaxFallback == 2
\* longest step chain handed to execute_steps on its own
MaxSteps == 3
\* longest input array handed to a Map step
MaxItems == 3

(***************************************************************************)
(* Option<T>                                                               *)
(***************************************************************************)
None == [some |-> FALSE]
Some(x) == [some |-> TRUE, v |-> x]

(***************************************************************************)
(* serde_json::Value.  Text is a sequence of characters.                   *)
(***************************************************************************)
JNull == [k |-> "null"]
JBool(b) == [k |-> "bool", b |-> b]
JNum(n) == [k |-> "num", n |-> n]
JStr(s) == [k |-> "str", s |-> s]
JArr(items) == [k |-> "arr", items |-> items]
JObj(fields) == [k |-> "obj", fields |-> fields]

(***************************************************************************)
(* ExtractValueData (value.rs): String | Json | Html | Array | Null        *)
(***************************************************************************)
ValString(s) == [tag |-> "String", s |-> s]
ValJson(j) == [tag |-> "Json", j |-> j]
ValHtml(s) == [tag |-> "Html", s |-> s]
ValArray(items) == [tag |-> "Array", items |-> items]
ValNull == [tag |-> "Null"]

\* from_json that does not recurse into arrays: the elements are kept as Json
from_json_shallow(value) ==
    CASE value.k = "str" -> ValString(value.s)
      [] value.k = "arr" ->
            ValArray([i \in 1..Len(value.items) |-> ValJson(value.items[i])])
      [] OTHER -> ValJson(value)

\* ExtractValueData::from_json
RECURSIVE from_json(_)
from_json(value) ==
    CASE value.k = "str" -> ValString(value.s)
      [] value.k = "arr" ->
            ValArray([i \in 1..Len(value.items) |-> from_json(value.items[i])])
      [] OTHER -> ValJson(value)

\* ExtractValueData::is_empty
is_empty(v) ==
    CASE v.tag = "String" -> v.s = <<>>
      [] v.tag = "Json" -> v.j.k = "null"
      [] v.tag = "Html" -> v.s = <<>>
      [] v.tag = "Array" -> v.items = <<>>
      [] v.tag = "Null" -> TRUE

\* is_truthy with the truthiness of a scripting language: Json 0 and Json {}
\* count as false
is_truthy_zero_falsy(v) ==
    CASE v.tag = "Null" -> FALSE
      [] v.tag = "String" -> v.s # <<>>
      [] v.tag = "Html" -> v.s # <<>>
      [] v.tag = "Array" -> v.items # <<>>
      [] v.tag = "Json" ->
            CASE v.j.k = "null" -> FALSE
              [] v.j.k = "bool" -> v.j.b
              [] v.j.k = "str" -> v.j.s # <<>>
              [] v.j.k = "arr" -> v.j.items # <<>>
              [] v.j.k = "num" -> v.j.n # 0
              [] v.j.k = "obj" -> v.j.fields # <<>>

\* ExtractValueData::is_truthy
is_truthy(v) ==
    CASE v.tag = "Null" -> FALSE
      [] v.tag = "String" -> v.s # <<>>
      [] v.tag = "Html" -> v.s # <<>>
      [] v.tag = "Array" -> v.items # <<>>
      [] v.tag = "Json" ->
            CASE v.j.k = "null" -> FALSE
              [] v.j.k = "bool" -> v.j.b
              [] v.j.k = "str" -> v.j.s # <<>>
              [] v.j.k = "arr" -> v.j.items # <<>>
              [] v.j.k = "num" -> TRUE
              [] v.j.k = "obj" -> TRUE

(***************************************************************************)
(* Result<SharedValue> and RuntimeError::Extraction                        *)
(***************************************************************************)
Ok(v) == [ok |-> TRUE, val |-> v]
Err(e) == [ok |-> FALSE, err |-> e]
\* the message is a sequence: its text, then the values formatted into it
Extraction(msg) == [type |-> "Extraction", msg |-> msg]

(***************************************************************************)
(* ExtractStep: the variants whose executors are part of the sources.      *)
(***************************************************************************)
Const(j) == [kind |-> "Const", value |-> j]
Var(name) == [kind |-> "Var", name |-> name]
Xpath == [kind |-> "Xpath"]
Map(steps) == [kind |-> "Map", steps |-> steps]
Condition(when, then, otherwise) ==
    [kind |-> "Condition", when |-> when, then |-> then, otherwise |-> otherwise]

\* Context::get: the variable bag is a function from the defined names
ContextGet(ctx, name) ==
    IF name \in DOMAIN ctx THEN Some(ctx[name]) ELSE None

\* ConstExecutor::execute
ConstExecutor_execute(value, input, ctx) == Ok(from_json(value))

\* VarExecutor::execute
VarExecutor_execute(var_name, input, ctx) ==
    LET got == ContextGet(ctx, var_name)
    IN  IF got.some THEN Ok(from_json(got.v))
        ELSE Err(Extraction(<<"Variable not found: ", var_name>>))

RECURSIVE StepExecutorFactory_execute(_, _, _)
RECURSIVE MapExecutor_execute_steps(_, _, _)
RECURSIVE MapExecutor_filter_map(_, _, _)
RECURSIVE ConditionExecutor_execute_steps(_, _, _)

\* MapExecutor::execute_steps: current = input; for step in steps { current = execute(step, current)? }
MapExecutor_execute_steps(steps, input, ctx) ==
    IF steps = <<>> THEN Ok(input)
    ELSE LET r == StepExecutorFactory_execute(Head(steps), input, ctx)
         IN  IF r.ok THEN MapExecutor_execute_steps(Tail(steps), r.val, ctx)
             ELSE r

\* mutant: the results are collected in reverse order
RECURSIVE MapExecutor_filter_map_reversed(_, _, _)
MapExecutor_filter_map_reversed(steps, items, ctx) ==
    IF items = <<>> THEN <<>>
    ELSE LET r == MapExecutor_execute_steps(steps, Head(items), ctx)
             rest == MapExecutor_filter_map_reversed(steps, Tail(items), ctx)
         IN  IF r.ok THEN rest \o <<r.val>> ELSE rest

\* arr.iter().filter_map(|item| execute_steps(steps, item).ok()).collect()
MapExecutor_filter_map(steps, items, ctx) ==
    IF items = <<>> THEN <<>>
    ELSE LET r == MapExecutor_execute_steps(steps, Head(items), ctx)
             rest == MapExecutor_filter_map(steps, Tail(items), ctx)
         IN  IF r.ok THEN <<r.val>> \o rest ELSE rest

\* MapExecutor::execute
MapExecutor_execute(steps, input, ctx) ==
    IF input.tag = "Array"
    THEN Ok(ValArray(MapExecutor_filter_map(steps, input.items, ctx)))
    ELSE Err(Extraction(<<"Map step requires array input">>))

\* ConditionExecutor::execute_steps
ConditionExecutor_execute_steps(steps, input, ctx) ==
    IF steps = <<>> THEN Ok(input)
    ELSE LET r == StepExecutorFactory_execute(Head(steps), input, ctx)
         IN  IF r.ok THEN ConditionExecutor_execute_steps(Tail(steps), r.val, ctx)
             ELSE r

\* ConditionExecutor::evaluate_condition
evaluate_condition(steps, input, ctx) ==
    LET r == ConditionExecutor_execute_steps(steps, input, ctx)
    IN  IF r.ok THEN is_truthy(r.val) ELSE FALSE

\* mutant: an error in `when` is returned instead of counting as false
ConditionExecutor_execute_when_error(condition, input, ctx) ==
    LET w == ConditionExecutor_execute_steps(condition.when, input, ctx)
    IN  IF ~w.ok THEN w
        ELSE IF is_truthy(w.val)
             THEN ConditionExecutor_execute_steps(condition.then, input, ctx)
             ELSE IF condition.otherwise.some
                  THEN ConditionExecutor_execute_steps(condition.otherwise.v, input, ctx)
                  ELSE Ok(input)

\* ConditionExecutor::execute
ConditionExecutor_execute(condition, input, ctx) ==
    IF evaluate_condition(condition.when, input, ctx)
    THEN ConditionExecutor_execute_steps(condition.then, input, ctx)
    ELSE IF condition.otherwise.some
         THEN ConditionExecutor_execute_steps(condition.otherwise.v, input, ctx)
         ELSE Ok(input)

\* StepExecutorFactory::execute
StepExecutorFactory_execute(step, input, ctx) ==
    CASE step.kind = "Const" -> ConstExecutor_execute(step.value, input, ctx)
      [] step.kind = "Var" -> VarExecutor_execute(step.name, input, ctx)
      [] step.kind = "Xpath" -> Err(Extraction(<<"XPath not supported in this context">>))
      [] step.kind = "Map" -> MapExecutor_execute(step.steps, input, ctx)
      [] step.kind = "Condition" -> ConditionExecutor_execute(step, input, ctx)

(***************************************************************************)
(* ExtractEngine::execute_steps (engine.rs 93-106), instrumented: besides  *)
(* the Result it returns the record of every step it executed (index,      *)
(* input handed to the step, output of the step), the counting fake step   *)
(* of the test plan.                                                       *)
(***************************************************************************)
\* mutant: a failing step is skipped instead of ending the chain
RECURSIVE execute_steps_loop_no_abort(_, _, _, _, _)
execute_steps_loop_no_abort(steps, i, current, ctx, tr) ==
    IF i > Len(steps)
    THEN [res |-> Ok(current), trace |-> tr]
    ELSE LET r == StepExecutorFactory_execute(steps[i], current, ctx)
             tr2 == Append(tr, [idx |-> i, input |-> current, out |-> r])
         IN  execute_steps_loop_no_abort(steps, i + 1,
                                         IF r.ok THEN r.val ELSE current, ctx, tr2)

RECURSIVE execute_steps_loop(_, _, _, _, _)
execute_steps_loop(steps, i, current, ctx, tr) ==
    IF i > Len(steps)
    THEN [res |-> Ok(current), trace |-> tr]
    ELSE LET r == StepExecutorFactory_execute(steps[i], current, ctx)
             tr2 == Append(tr, [idx |-> i, input |-> current, out |-> r])
         IN  IF r.ok
             THEN execute_steps_loop(steps, i + 1, r.val, ctx, tr2)
             ELSE [res |-> r, trace |-> tr2]

execute_steps_run(steps, inp, ctx) == execute_steps_loop(steps, 1, inp, ctx, <<>>)

execute_steps(steps, inp, ctx) == execute_steps_run(steps, inp, ctx).res

(***************************************************************************)
(* The decisions of ExtractEngine::extract_field (engine.rs 34-90)         *)
(***************************************************************************)
\* mutant: every value of a non-nullable extractor is sent to the fallbacks
primary_value_rejected_nonnullable(value, nullable) == is_empty(value) \/ ~nullable

\* mutant: the nullable flag is ignored
primary_value_rejected_any_empty(value, nullable) == is_empty(value)

\* line 43: `value.is_empty() && !extractor.nullable` sends an Ok value to
\* the fallbacks; otherwise it is returned
primary_value_rejected(value, nullable) == is_empty(value) /\ ~nullable

\* mutant: any Ok value of a fallback chain is returned
fallback_accepted_any_ok(res) == res.ok

\* lines 47-50, 73-76: `if let Ok(fallback_value) = .. && !fallback_value.is_empty()`
fallback_accepted(res) == res.ok /\ ~is_empty(res.val)

\* mutant: a fallback chain is fed the value of the previous attempt
fallback_input_chained(inp, previous) == IF previous.ok THEN previous.val ELSE inp

\* the input handed to execute_steps for a fallback chain (lines 48, 74)
fallback_input(inp, previous) == inp

\* mutant: the fallback chains are iterated from the last to the first
fallback_chain_reversed(fallback, i) == fallback[Len(fallback) + 1 - i]

\* `for fallback_steps in fallback`: the chain of the i-th iteration
fallback_chain(fallback, i) == fallback[i]

\* mutant: the default is applied in the Err arm only
default_or_error_err_arm_only(default, armTaken, e) ==
    IF armTaken = "ok"
    THEN Err(Extraction(<<"Field extraction returned empty value">>))
    ELSE IF default.some THEN Ok(from_json(default.v)) ELSE Err(e)

\* mutant: both arms end with the empty-value error
default_or_error_one_message(default, armTaken, e) ==
    IF default.some
    THEN Ok(from_json(default.v))
    ELSE Err(Extraction(<<"Field extraction returned empty value">>))

\* lines 57-64 and 83-87: the default, else the error of the arm
default_or_error(default, armTaken, e) ==
    IF default.some
    THEN Ok(from_json(default.v))
    ELSE IF armTaken = "ok"
         THEN Err(Extraction(<<"Field extraction returned empty value">>))
         ELSE Err(e)

(***************************************************************************)
(* State.  calls is the record of the execute_steps calls extract_field    *)
(* made, trace the record of the steps they executed, defaultReads the     *)
(* number of reads of extractor.default.                                   *)
(***************************************************************************)
VARIABLES
    extractor,      \* the FieldExtractor: steps, fallback, default, nullable
    input,          \* the input value of extract_field / execute_steps
    context,        \* the Context variable bag
    step,           \* the step of a direct Map or Condition executor call
    pc,             \* position in extract_field
    arm,            \* match arm of extract_field taken: "ok" (empty value) or "err"
    primErr,        \* the error e bound by the Err(e) arm
    fbIdx,          \* index of the next fallback chain
    chain,          \* steps argument of a direct execute_steps call
    result,         \* value returned by extract_field / execute_steps
    calls,          \* execute_steps calls: which chain, steps, input, result
    trace,          \* executed steps: which chain, index, input, output
    defaultReads    \* number of times extractor.default was read

engineVars ==
    <<extractor, input, context, step, arm, primErr, fbIdx, chain, result,
      calls, trace, defaultReads>>

(***************************************************************************)
(* State of RuleValidator (src/runtime/validation.rs).                     *)
(***************************************************************************)
VARIABLES
    rule,           \* the CrawlerRule under validation
    keyOrder,       \* the order in which rule.components (a HashMap) iterates
    errors,         \* RuleValidator.errors: the ValidationErrors collected
    verdict,        \* value returned by validate
    walk            \* the detect_cycle calls in progress: key, frames, visited, path

validatorVars == <<rule, keyOrder, errors, verdict, walk>>

(***************************************************************************)
(* State of a call of one of the pure functions of the sources: the        *)
(* function and its arguments, and the value it returned.                  *)
(***************************************************************************)
VARIABLES
    fnCall,         \* [fn, args]: the function called and its arguments
    fnRet           \* the value the call returned

pureVars == <<fnCall, fnRet>>

vars == <<pc, engineVars, validatorVars, pureVars>>

NoCall == [fn |-> "none", args |-> <<>>]

NoReturn == [returned |-> FALSE]

Returned(v) == [returned |-> TRUE, v |-> v]

\* no pure function is being called
PureIdle ==
    /\ fnCall = NoCall
    /\ fnRet = NoReturn

NoRule == [detail |-> <<>>]

NoVerdict == [ok |-> FALSE, err |-> [type |-> "none"]]

\* no detect_cycle call is followed step by step
NoWalk == [k |-> 0, stack |-> <<>>, visited |-> {}, path |-> <<>>,
           ret |-> "none", ncalls |-> 0]

\* the validator is not running
ValidatorIdle ==
    /\ rule = NoRule
    /\ keyOrder = <<>>
    /\ errors = <<>>
    /\ verdict = NoVerdict
    /\ walk = NoWalk

NoError == [type |-> "none", msg |-> <<>>]

NoResult == [ok |-> FALSE, err |-> NoError]

NoStep == [kind |-> "none"]

NoExtractor == [steps |-> <<>>, fallback |-> None, default |-> None, nullable |-> FALSE]

SeqsUpTo(S, n) == UNION {[1..k -> S] : k \in 0..n}

\* the steps of one execute_steps call, labelled with the chain they belong to
Labelled(w, tr) ==
    [i \in 1..Len(tr) |->
        [which |-> w, idx |-> tr[i].idx, input |-> tr[i].input, out |-> tr[i].out]]

CallRecord(w, steps, inp, res) ==
    [which |-> w, steps |-> steps, input |-> inp, res |-> res]

(***************************************************************************)
(* Inputs of the field engine.                                             *)
(***************************************************************************)
\* chains with the outcomes the engine distinguishes: value of the input,
\* non-empty constant, empty constant, error, context-dependent, and a
\* two-step chain that fails on a non-array input
FieldChains ==
    { <<>>,
      <<Const(JStr(<<"a">>))>>,
      <<Const(JStr(<<>>))>>,
      <<Xpath>>,
      <<Var("x")>>,
      <<Map(<<>>), Const(JStr(<<"b">>))>> }

FieldFallbacks == {None} \cup {Some(f) : f \in SeqsUpTo(FieldChains, MaxFallback)}

FieldDefaults == {None, Some(JStr(<<"d">>)), Some(JNull)}

FieldExtractors ==
    [steps : FieldChains, fallback : FieldFallbacks,
     default : FieldDefaults, nullable : BOOLEAN]

FieldInputs == {ValString(<<"s">>), ValArray(<<>>)}

Contexts == {<<>>, [x \in {"x"} |-> JStr(<<"v">>)]}

InitField ==
    /\ extractor \in FieldExtractors
    /\ input \in FieldInputs
    /\ context \in Contexts
    /\ step = NoStep
    /\ pc = "start"
    /\ arm = "none"
    /\ primErr = NoError
    /\ fbIdx = 0
    /\ chain = <<>>
    /\ result = NoResult
    /\ calls = <<>>
    /\ trace = <<>>
    /\ defaultReads = 0
    /\ ValidatorIdle
    /\ PureIdle

(***************************************************************************)
(* ExtractEngine::extract_field (engine.rs 34-90)                          *)
(***************************************************************************)
\* line 40: run the primary chain and match on its result
extract_field_primary ==
    /\ pc = "start"
    /\ LET run == execute_steps_run(extractor.steps, input, context)
       IN  /\ calls' = Append(calls, CallRecord(0, extractor.steps, input, run.res))
           /\ trace' = trace \o Labelled(0, run.trace)
           /\ IF run.res.ok
              THEN IF primary_value_rejected(run.res.val, extractor.nullable)
                   THEN /\ arm' = "ok"
                        /\ fbIdx' = 1
                        /\ pc' = "fallback"
                        /\ UNCHANGED <<primErr, result>>
                   ELSE /\ result' = Ok(run.res.val)
                        /\ pc' = "done"
                        /\ UNCHANGED <<arm, primErr, fbIdx>>
              ELSE /\ arm' = "err"
                   /\ primErr' = run.res.err
                   /\ fbIdx' = 1
                   /\ pc' = "fallback"
                   /\ UNCHANGED result
    /\ UNCHANGED <<pureVars, validatorVars, extractor, input, context, step, chain, defaultReads>>

\* lines 45-54, 71-80: one iteration of `for fallback_steps in fallback`
extract_field_fallback ==
    /\ pc = "fallback"
    /\ extractor.fallback.some
    /\ fbIdx <= Len(extractor.fallback.v)
    /\ LET steps == fallback_chain(extractor.fallback.v, fbIdx)
           previous == calls[Len(calls)].res
           inp == fallback_input(input, previous)
           run == execute_steps_run(steps, inp, context)
       IN  /\ calls' = Append(calls, CallRecord(fbIdx, steps, inp, run.res))
           /\ trace' = trace \o Labelled(fbIdx, run.trace)
           /\ IF fallback_accepted(run.res)
              THEN /\ result' = Ok(run.res.val)
                   /\ pc' = "done"
                   /\ UNCHANGED fbIdx
              ELSE /\ fbIdx' = fbIdx + 1
                   /\ UNCHANGED <<pc, result>>
    /\ UNCHANGED <<pureVars, validatorVars, extractor, input, context, step, arm, primErr, chain, defaultReads>>

\* lines 56-64, 82-87: no fallback list, or the loop ran to its end
extract_field_default ==
    /\ pc = "fallback"
    /\ ~(extractor.fallback.some /\ fbIdx <= Len(extractor.fallback.v))
    /\ defaultReads' = defaultReads + 1
    /\ result' = default_or_error(extractor.default, arm, primErr)
    /\ pc' = "done"
    /\ UNCHANGED <<pureVars, validatorVars, extractor, input, context, step, arm, primErr, fbIdx, chain,
                   calls, trace>>

Next ==
    \/ extract_field_primary
    \/ extract_field_fallback
    \/ extract_field_default

Spec == InitField /\ [][Next]_vars

(***************************************************************************)
(* execute_steps on its own: a chain over the step universe run on one of  *)
(* the inputs.                                                             *)
(***************************************************************************)
Truthy == Const(JBool(TRUE))
Falsy == Const(JBool(FALSE))

ConditionSteps ==
    { Condition(w, t, o) :
        w \in {<<>>, <<Xpath>>, <<Falsy>>, <<Truthy>>, <<Map(<<>>)>>},
        t \in {<<Const(JStr(<<"yes">>))>>, <<Xpath>>, <<Map(<<>>)>>},
        o \in {None, Some(<<Const(JStr(<<"no">>))>>), Some(<<Xpath>>), Some(<<>>)} }

StepUniverse ==
    { Const(JStr(<<"a">>)), Const(JStr(<<>>)), Const(JArr(<<JStr(<<"a">>), JNull>>)),
      Xpath, Var("x"), Map(<<>>), Map(<<Const(JStr(<<"a">>))>>),
      Condition(<<>>, <<Xpath>>, None) }

Items == {ValString(<<"s">>), ValString(<<>>), ValArray(<<>>), ValNull}

StepsInputs ==
    { ValString(<<"s">>), ValNull, ValArray(<<>>),
      ValArray(<<ValString(<<"s">>), ValNull>>) }

InitSteps ==
    /\ chain \in SeqsUpTo(StepUniverse, MaxSteps)
    /\ input \in StepsInputs
    /\ context \in Contexts
    /\ step = NoStep
    /\ pc = "steps"
    /\ extractor = NoExtractor
    /\ arm = "none"
    /\ primErr = NoError
    /\ fbIdx = 0
    /\ result = NoResult
    /\ calls = <<>>
    /\ trace = <<>>
    /\ defaultReads = 0
    /\ ValidatorIdle
    /\ PureIdle

\* a caller runs execute_steps(chain, input, context)
execute_steps_call ==
    /\ pc = "steps"
    /\ LET run == execute_steps_run(chain, input, context)
       IN  /\ result' = run.res
           /\ calls' = Append(calls, CallRecord(0, chain, input, run.res))
           /\ trace' = Labelled(0, run.trace)
    /\ pc' = "done"
    /\ UNCHANGED <<pureVars, validatorVars, extractor, input, context, step, arm, primErr, fbIdx, chain,
                   defaultReads>>

NextSteps == execute_steps_call

SpecSteps == InitSteps /\ [][NextSteps]_vars

(***************************************************************************)
(* MapExecutor::execute on its own: Map(steps) applied to one input.       *)
(***************************************************************************)
\* sub-pipelines: the identity, a constant, a failure, one that succeeds on
\* array items only, one that returns the falsy items and fails on the
\* others, and a two-step one
MapChains ==
    { <<>>,
      <<Const(JStr(<<"a">>))>>,
      <<Xpath>>,
      <<Map(<<>>)>>,
      <<Condition(<<>>, <<Xpath>>, None)>>,
      <<Map(<<>>), Const(JStr(<<"b">>))>> }

MapInputs ==
    { ValString(<<"s">>), ValNull, ValJson(JArr(<<JNum(1)>>)), ValHtml(<<"h">>) }
    \cup { ValArray(a) : a \in SeqsUpTo(Items, MaxItems) }

InitMap ==
    /\ step \in { Map(c) : c \in MapChains }
    /\ input \in MapInputs
    /\ context \in Contexts
    /\ pc = "map"
    /\ extractor = NoExtractor
    /\ arm = "none"
    /\ primErr = NoError
    /\ fbIdx = 0
    /\ chain = <<>>
    /\ result = NoResult
    /\ calls = <<>>
    /\ trace = <<>>
    /\ defaultReads = 0
    /\ ValidatorIdle
    /\ PureIdle

\* StepExecutorFactory dispatches ExtractStep::Map(steps) to MapExecutor::execute
map_execute_call ==
    /\ pc = "map"
    /\ result' = MapExecutor_execute(step.steps, input, context)
    /\ pc' = "done"
    /\ UNCHANGED <<pureVars, validatorVars, extractor, input, context, step, arm, primErr, fbIdx, chain,
                   calls, trace, defaultReads>>

NextMap == map_execute_call

SpecMap == InitMap /\ [][NextMap]_vars

(***************************************************************************)
(* ConditionExecutor::execute on its own.                                  *)
(***************************************************************************)
ConditionInputs ==
    StepsInputs \cup { ValString(<<>>), ValJson(JNum(0)), ValJson(JBool(FALSE)) }

InitCondition ==
    /\ step \in ConditionSteps
    /\ input \in ConditionInputs
    /\ context \in Contexts
    /\ pc = "condition"
    /\ extractor = NoExtractor
    /\ arm = "none"
    /\ primErr = NoError
    /\ fbIdx = 0
    /\ chain = <<>>
    /\ result = NoResult
    /\ calls = <<>>
    /\ trace = <<>>
    /\ defaultReads = 0
    /\ ValidatorIdle
    /\ PureIdle

\* StepExecutorFactory dispatches ExtractStep::Condition to ConditionExecutor::execute
condition_execute_call ==
    /\ pc = "condition"
    /\ result' = ConditionExecutor_execute(step, input, context)
    /\ pc' = "done"
    /\ UNCHANGED <<pureVars, validatorVars, extractor, input, context, step, arm, primErr, fbIdx, chain,
                   calls, trace, defaultReads>>

NextCondition == condition_execute_call

SpecCondition == InitCondition /\ [][NextCondition]_vars

(***************************************************************************)
(* What the chains of the extractor yield on the input, for the claims.    *)
(***************************************************************************)
Fallbacks == IF extractor.fallback.some THEN extractor.fallback.v ELSE <<>>

PrimaryOutcome == execute_steps(extractor.steps, input, context)

FallbackOutcome(i) == execute_steps(Fallbacks[i], input, context)

\* a chain result the engine returns as it stands: Ok and not empty
Good(r) == r.ok /\ ~is_empty(r.val)

\* the primary chain failed, or gave an empty value on a non-nullable extractor
PrimaryUnusable ==
    \/ ~PrimaryOutcome.ok
    \/ (is_empty(PrimaryOutcome.val) /\ ~extractor.nullable)

\* index of the first fallback chain with a good result, 0 when there is none
FirstGood ==
    LET good == {i \in 1..Len(Fallbacks) : Good(FallbackOutcome(i))}
    IN  IF good = {} THEN 0 ELSE CHOOSE i \in good : \A j \in good : i <= j

\* number of fallback chains that have to run
FallbacksDue == IF FirstGood = 0 THEN Len(Fallbacks) ELSE FirstGood

(***************************************************************************)
(* C1: fallback minimality.  Once a non-nullable extractor's primary chain *)
(* has succeeded with a non-empty value, extract_field has returned        *)
(* exactly that value, no fallback chain was called, no step of a fallback *)
(* chain was executed and the default was never read.                      *)
(***************************************************************************)
C1_FallbackMinimality ==
    (pc # "start" /\ ~extractor.nullable /\ Good(PrimaryOutcome)) =>
        /\ pc = "done"
        /\ result = Ok(PrimaryOutcome.val)
        /\ \A i \in 1..Len(calls) : calls[i].which = 0
        /\ \A i \in 1..Len(trace) : trace[i].which = 0
        /\ defaultReads = 0
    /\ ValidatorIdle

C1_Witness ==
    /\ pc = "done"
    /\ ~extractor.nullable
    /\ Good(PrimaryOutcome)
    /\ Len(Fallbacks) = MaxFallback
    /\ Good(FallbackOutcome(1))
    /\ extractor.default.some
    /\ result = Ok(ValString(<<"a">>))

(***************************************************************************)
(* C2: when the primary chain fails, or gives an empty value on a          *)
(* non-nullable extractor, the fallback chains are called one after the    *)
(* other in declaration order, each on its declared steps; the calls stop  *)
(* at the first chain that succeeds with a non-empty value, whose value is *)
(* the result, and no later fallback chain is called.                      *)
(***************************************************************************)
C2_FallbackOrder ==
    /\ \A i \in 1..Len(calls) : calls[i].which = i - 1
    /\ \A i \in 1..(Len(trace) - 1) : trace[i].which <= trace[i + 1].which
    /\ (pc = "done" /\ PrimaryUnusable) =>
            /\ Len(calls) = FallbacksDue + 1
            /\ \A i \in 1..FallbacksDue :
                    /\ calls[i + 1].steps = Fallbacks[i]
                    /\ calls[i + 1].res = FallbackOutcome(i)
            /\ \A i \in 1..Len(trace) : trace[i].which <= FallbacksDue
            /\ FirstGood > 0 => result = Ok(FallbackOutcome(FirstGood).val)

C2_Witness ==
    /\ pc = "done"
    /\ PrimaryUnusable
    /\ Len(Fallbacks) = 2
    /\ FirstGood = 1
    /\ Good(FallbackOutcome(2))
    /\ FallbackOutcome(2) # FallbackOutcome(1)
    /\ result = Ok(FallbackOutcome(1).val)

\* no chain of the extractor yields a value the engine returns as it stands
NoGoodChain == ~Good(PrimaryOutcome) /\ FirstGood = 0

\* the chains that fail on the input, in the order of the attempts
\* (0 the primary chain, i the i-th fallback chain)
FailedAttempts ==
    {i \in 0..Len(Fallbacks) :
        IF i = 0 THEN ~PrimaryOutcome.ok ELSE ~FallbackOutcome(i).ok}

\* the error raised last when every chain is attempted
MostRecentError ==
    LET last == CHOOSE i \in FailedAttempts : \A j \in FailedAttempts : j <= i
    IN  IF last = 0 THEN PrimaryOutcome.err ELSE FallbackOutcome(last).err

(***************************************************************************)
(* C3 as stated: when neither the primary chain nor any fallback chain     *)
(* yields a non-empty value and the extractor has a default, extract_field *)
(* returns Ok(from_json(default)).  It fails for a nullable extractor      *)
(* whose primary chain succeeds with an empty value: that value is         *)
(* returned.                                                               *)
(***************************************************************************)
C3_Original ==
    (pc = "done" /\ NoGoodChain /\ extractor.default.some) =>
        result = Ok(from_json(extractor.default.v))

(***************************************************************************)
(* C3 amended: when the primary chain fails, or succeeds with an empty     *)
(* value on a non-nullable extractor, and no fallback chain yields a       *)
(* non-empty value, and the extractor has a default, extract_field returns *)
(* Ok(from_json(default)): String for a JSON string, Json for JSON null.   *)
(* The default is read only after every fallback chain has been called.    *)
(***************************************************************************)
C3_DefaultAfterFallbacks ==
    /\ defaultReads > 0 =>
            /\ Len(calls) = 1 + Len(Fallbacks)
            /\ \A i \in 1..Len(calls) : ~Good(calls[i].res)
    /\ (pc = "done" /\ PrimaryUnusable /\ FirstGood = 0 /\ extractor.default.some) =>
            /\ result = Ok(from_json(extractor.default.v))
            /\ result.val.tag = (IF extractor.default.v.k = "str" THEN "String" ELSE "Json")
            /\ defaultReads = 1

C3_Witness ==
    /\ pc = "done"
    /\ PrimaryOutcome.ok
    /\ PrimaryUnusable
    /\ Len(Fallbacks) = 2
    /\ ~FallbackOutcome(1).ok
    /\ FallbackOutcome(2).ok
    /\ FirstGood = 0
    /\ extractor.default = Some(JStr(<<"d">>))
    /\ result = Ok(ValString(<<"d">>))

(***************************************************************************)
(* C4 as stated: with no usable chain and no default, a failed primary     *)
(* chain makes extract_field return the error raised last during the       *)
(* attempts.  It fails when a fallback chain fails with another error      *)
(* than the primary chain: the primary chain's error is returned.          *)
(***************************************************************************)
C4_Original ==
    (pc = "done" /\ PrimaryUnusable /\ FirstGood = 0 /\ ~extractor.default.some) =>
        result = IF ~PrimaryOutcome.ok
                 THEN Err(MostRecentError)
                 ELSE Err(Extraction(<<"Field extraction returned empty value">>))

(***************************************************************************)
(* C4 amended: with no usable chain and no default, extract_field returns  *)
(* the primary chain's own error when the primary chain failed (the errors *)
(* of the fallback chains are dropped), and the Extraction error "Field    *)
(* extraction returned empty value" when the primary chain succeeded with  *)
(* an empty value on a non-nullable extractor.                             *)
(***************************************************************************)
C4_ErrorReturned ==
    (pc = "done" /\ PrimaryUnusable /\ FirstGood = 0 /\ ~extractor.default.some) =>
        result = IF ~PrimaryOutcome.ok
                 THEN Err(PrimaryOutcome.err)
                 ELSE Err(Extraction(<<"Field extraction returned empty value">>))

C4_Witness ==
    /\ pc = "done"
    /\ ~PrimaryOutcome.ok
    /\ Len(Fallbacks) = 1
    /\ ~FallbackOutcome(1).ok
    /\ FallbackOutcome(1).err # PrimaryOutcome.err
    /\ ~extractor.default.some
    /\ result = Err(PrimaryOutcome.err)

(***************************************************************************)
(* C5: a nullable extractor whose primary chain succeeds returns that      *)
(* chain's value, empty or not, with no fallback call and no read of the   *)
(* default.  When the primary chain fails, the outcome is the one the      *)
(* fallbacks, the default and the primary error give, whatever the         *)
(* nullable flag: it is a function of the other fields alone.              *)
(***************************************************************************)
C5_Nullable ==
    /\ (pc # "start" /\ extractor.nullable /\ PrimaryOutcome.ok) =>
            /\ pc = "done"
            /\ result = Ok(PrimaryOutcome.val)
            /\ Len(calls) = 1
            /\ defaultReads = 0
    /\ ValidatorIdle
    /\ (pc = "done" /\ ~PrimaryOutcome.ok) =>
            /\ result = IF FirstGood > 0
                        THEN Ok(FallbackOutcome(FirstGood).val)
                        ELSE IF extractor.default.some
                             THEN Ok(from_json(extractor.default.v))
                             ELSE Err(PrimaryOutcome.err)
            /\ Len(calls) = 1 + FallbacksDue
            /\ defaultReads = (IF FirstGood > 0 THEN 0 ELSE 1)

C5_Witness ==
    /\ pc = "done"
    /\ extractor.nullable
    /\ PrimaryOutcome.ok
    /\ is_empty(PrimaryOutcome.val)
    /\ Len(Fallbacks) = 1
    /\ Good(FallbackOutcome(1))
    /\ extractor.default.some
    /\ result = Ok(PrimaryOutcome.val)

C5_WitnessFailed ==
    /\ pc = "done"
    /\ extractor.nullable
    /\ ~PrimaryOutcome.ok
    /\ Len(Fallbacks) = 1
    /\ FirstGood = 0
    /\ extractor.default = Some(JNull)
    /\ result = Ok(ValJson(JNull))

(***************************************************************************)
(* C6: every execute_steps call of extract_field, for the primary chain    *)
(* and for each fallback chain, is handed the original input, and so is    *)
(* the first step of each chain; the input itself is never changed.        *)
(***************************************************************************)
C6_SameInput ==
    /\ \A i \in 1..Len(calls) : calls[i].input = input
    /\ \A i \in 1..Len(trace) : trace[i].idx = 1 => trace[i].input = input

C6_Witness ==
    /\ pc = "done"
    /\ Len(calls) = 3
    /\ calls[1].res.ok
    /\ calls[1].res.val # input
    /\ calls[2].res.ok
    /\ calls[2].res.val # input
    /\ \E i \in 1..Len(trace) : trace[i].which = 2 /\ trace[i].idx = 1

(***************************************************************************)
(* C7: execute_steps threads the value in step order.  The executed steps  *)
(* are steps 1..n of the chain in order, step 1 receives the chain's       *)
(* input, step i+1 the output of step i; when all succeed the result is    *)
(* the last output (the input for an empty chain); when step n fails the   *)
(* result is its error and no later step is executed.                      *)
(***************************************************************************)
C7_StepOrder ==
    pc = "done" =>
        LET n == Len(trace)
        IN  /\ n <= Len(chain)
            /\ \A i \in 1..n :
                    /\ trace[i].idx = i
                    /\ trace[i].input = (IF i = 1 THEN input ELSE trace[i - 1].out.val)
                    /\ trace[i].out =
                          StepExecutorFactory_execute(chain[i], trace[i].input, context)
                    /\ i < n => trace[i].out.ok
            /\ IF n = 0
               THEN chain = <<>> /\ result = Ok(input)
               ELSE IF trace[n].out.ok
                    THEN n = Len(chain) /\ result = Ok(trace[n].out.val)
                    ELSE result = Err(trace[n].out.err)

\* step 1 changes the value, step 2 fails on it although it succeeds on the
\* chain's input, step 3 is not executed
C7_Witness ==
    /\ pc = "done"
    /\ Len(chain) = 3
    /\ Len(trace) = 2
    /\ trace[1].out.ok
    /\ trace[1].out.val # input
    /\ ~trace[2].out.ok
    /\ StepExecutorFactory_execute(chain[2], input, context).ok
    /\ result = Err(trace[2].out.err)

(***************************************************************************)
(* C8: Map(steps) on an Array succeeds with an Array that holds, in the    *)
(* order of their items, the outputs of the items whose sub-pipeline       *)
(* succeeded and nothing else, so it is never longer than the input; on    *)
(* any other input it fails with an Extraction error.                      *)
(***************************************************************************)
ItemOutcome(i) == execute_steps(step.steps, input.items[i], context)

Succeeded == {i \in 1..Len(input.items) : ItemOutcome(i).ok}

WhenOutcome == execute_steps(step.when, input, context)

WhenHolds == WhenOutcome.ok /\ is_truthy(WhenOutcome.val)

C9_Condition ==
    pc = "done" =>
        /\ WhenHolds => result = execute_steps(step.then, input, context)
        /\ (~WhenHolds /\ step.otherwise.some) =>
                result = execute_steps(step.otherwise.v, input, context)
        /\ (~WhenHolds /\ ~step.otherwise.some) => result = Ok(input)

\* `when` fails, the step does not: the otherwise branch gives the result
C9_Witness ==
    /\ pc = "done"
    /\ ~WhenOutcome.ok
    /\ step.otherwise = Some(<<Const(JStr(<<"no">>))>>)
    /\ execute_steps(step.then, input, context) # result
    /\ result = Ok(ValString(<<"no">>))

(***************************************************************************)
(* The rule model (src/schema): pipeline steps, flows, components.         *)
(***************************************************************************)
\* Step::Call(StepCall{component, ..})
Call(component) == [type |-> "call", component |-> component]
\* Step::Script(StepScript{call, ..}); call is the text "module.function"
Script(call) == [type |-> "script", call |-> call]
\* Step::LoopForEach(StepLoopForEach{pipeline, ..})
LoopForEach(pipeline) == [type |-> "loop_for_each", pipeline |-> pipeline]
\* Step::Log(StepLog{..}): a step with the default StepTrait::validate
Log == [type |-> "log"]

\* CrawlerError variants pushed by the validator
UndefinedComponent(component) == [type |-> "UndefinedComponent", component |-> component]
UndefinedScriptModule(module) == [type |-> "UndefinedScriptModule", module |-> module]
CircularReference(path) == [type |-> "CircularReference", path |-> path]
MultipleErrors(count, errs) == [type |-> "MultipleErrors", count |-> count, errors |-> errs]

\* path.join(" -> ")
RECURSIVE Join(_)
Join(path) ==
    IF Len(path) <= 1 THEN path
    ELSE <<Head(path), " -> ">> \o Join(Tail(path))

\* script.call.split('.').next(): the text before the first '.'
RECURSIVE split_dot_first(_)
split_dot_first(text) ==
    IF text = <<>> \/ Head(text) = "." THEN <<>>
    ELSE <<Head(text)>> \o split_dot_first(Tail(text))

\* RuleValidator::new: the keys of rule.components, of rule.scripting.modules
defined_components(r) ==
    IF r.components.some THEN DOMAIN r.components.v ELSE {}

defined_script_modules(r) ==
    IF r.scripting.some THEN r.scripting.v ELSE {}

(***************************************************************************)
(* RuleValidator::detect_cycle.  visited and path are the &mut arguments,  *)
(* returned with the verdict; ncalls counts the calls of detect_cycle.     *)
(***************************************************************************)
RECURSIVE detect_cycle(_, _, _, _)
RECURSIVE detect_cycle_steps(_, _, _, _, _)

\* the loop without `visited.remove(component_name)` on the way back
RECURSIVE detect_cycle_steps_keep_visited(_, _, _, _, _)
detect_cycle_steps_keep_visited(pipeline, i, components, st, name) ==
    IF i > Len(pipeline)
    THEN [found |-> FALSE,
          visited |-> st.visited,
          path |-> SubSeq(st.path, 1, Len(st.path) - 1),
          ncalls |-> st.ncalls]
    ELSE IF pipeline[i].type = "call"
         THEN LET sub == detect_cycle(pipeline[i].component, components,
                                      st.visited, st.path)
                  st2 == [visited |-> sub.visited, path |-> sub.path,
                          ncalls |-> st.ncalls + sub.ncalls]
              IN  IF sub.found
                  THEN [found |-> TRUE, visited |-> st2.visited,
                        path |-> st2.path, ncalls |-> st2.ncalls]
                  ELSE detect_cycle_steps_keep_visited(pipeline, i + 1, components,
                                                       st2, name)
         ELSE detect_cycle_steps_keep_visited(pipeline, i + 1, components, st, name)

\* `for step in &component.pipeline`, from step i on, with ncalls calls made
detect_cycle_steps(pipeline, i, components, st, name) ==
    IF i > Len(pipeline)
    THEN \* path.pop(); visited.remove(component_name); false
         [found |-> FALSE,
          visited |-> st.visited \ {name},
          path |-> SubSeq(st.path, 1, Len(st.path) - 1),
          ncalls |-> st.ncalls]
    ELSE IF pipeline[i].type = "call"
         THEN LET sub == detect_cycle(pipeline[i].component, components,
                                      st.visited, st.path)
                  st2 == [visited |-> sub.visited, path |-> sub.path,
                          ncalls |-> st.ncalls + sub.ncalls]
              IN  IF sub.found
                  THEN [found |-> TRUE, visited |-> st2.visited,
                        path |-> st2.path, ncalls |-> st2.ncalls]
                  ELSE detect_cycle_steps(pipeline, i + 1, components, st2, name)
         ELSE detect_cycle_steps(pipeline, i + 1, components, st, name)

\* detect_cycle without the push of the repeated node on the early return
detect_cycle_no_repeat(component_name, components, visited, path) ==
    IF component_name \in visited
    THEN [found |-> TRUE, visited |-> visited, path |-> path, ncalls |-> 1]
    ELSE LET st == [visited |-> visited \cup {component_name},
                    path |-> Append(path, component_name),
                    ncalls |-> 1]
         IN  IF component_name \in DOMAIN components
             THEN detect_cycle_steps(components[component_name], 1, components,
                                     st, component_name)
             ELSE detect_cycle_steps(<<>>, 1, components, st, component_name)

detect_cycle(component_name, components, visited, path) ==
    IF component_name \in visited
    THEN [found |-> TRUE, visited |-> visited,
          path |-> Append(path, component_name), ncalls |-> 1]
    ELSE LET st == [visited |-> visited \cup {component_name},
                    path |-> Append(path, component_name),
                    ncalls |-> 1]
         IN  IF component_name \in DOMAIN components
             THEN detect_cycle_steps(components[component_name], 1, components,
                                     st, component_name)
             ELSE detect_cycle_steps(<<>>, 1, components, st, component_name)

\* RuleValidator::validate_component_cycles: the errors pushed, for the
\* components taken in the order `order`
RECURSIVE validate_component_cycles(_, _)
validate_component_cycles(components, order) ==
    IF order = <<>> THEN <<>>
    ELSE LET r == detect_cycle(Head(order), components, {}, <<>>)
             rest == validate_component_cycles(components, Tail(order))
         IN  IF r.found THEN <<CircularReference(Join(r.path))>> \o rest ELSE rest

(***************************************************************************)
(* RuleValidator::validate_pipeline / validate_step: the errors pushed.    *)
(***************************************************************************)
RECURSIVE validate_pipeline(_, _, _)

\* RuleValidator::validate_step
validate_step(stp, comps, modules) ==
    CASE stp.type = "call" ->
            IF stp.component \notin comps
            THEN <<UndefinedComponent(stp.component)>>
            ELSE <<>>
      [] stp.type = "script" ->
            IF split_dot_first(stp.call) \notin modules
            THEN <<UndefinedScriptModule(split_dot_first(stp.call))>>
            ELSE <<>>
      [] stp.type = "loop_for_each" -> validate_pipeline(stp.pipeline, comps, modules)
      [] OTHER -> <<>>

\* validate_pipeline that stops at the first step that recorded an error
validate_pipeline_first_error(pipeline, comps, modules) ==
    IF pipeline = <<>> THEN <<>>
    ELSE LET first == validate_step(Head(pipeline), comps, modules)
         IN  IF first # <<>> THEN first
             ELSE validate_pipeline(Tail(pipeline), comps, modules)

validate_pipeline(pipeline, comps, modules) ==
    IF pipeline = <<>> THEN <<>>
    ELSE validate_step(Head(pipeline), comps, modules)
            \o validate_pipeline(Tail(pipeline), comps, modules)

\* FlowTrait::pipeline for LoginFlow: the login action pipeline
login_flow_pipeline(login) == login.pipeline

\* step 2 of validate_all: login and list when present, then detail, search
validate_flows(r, comps, modules) ==
    (IF r.login.some
     THEN validate_pipeline(login_flow_pipeline(r.login.v), comps, modules)
     ELSE <<>>)
    \o (IF r.list.some THEN validate_pipeline(r.list.v, comps, modules) ELSE <<>>)
    \o validate_pipeline(r.detail, comps, modules)
    \o validate_pipeline(r.search, comps, modules)

\* step 3 of validate_all: `for (name, component) in components`
RECURSIVE validate_components(_, _, _, _)
validate_components(components, order, comps, modules) ==
    IF order = <<>> THEN <<>>
    ELSE validate_pipeline(components[Head(order)], comps, modules)
            \o validate_components(components, Tail(order), comps, modules)

\* ValidationErrors::into_result
into_result(errs) ==
    IF errs = <<>> THEN [ok |-> TRUE]
    ELSE IF Len(errs) = 1 THEN [ok |-> FALSE, err |-> errs[1]]
    ELSE [ok |-> FALSE, err |-> MultipleErrors(Len(errs), errs)]

(***************************************************************************)
(* Rules handed to validate.                                               *)
(***************************************************************************)
\* longest chain of nested LoopForEach around a step
MaxLoopDepth == 1

RECURSIVE Nested(_, _)
Nested(stp, d) == IF d = 0 THEN stp ELSE LoopForEach(<<Nested(stp, d - 1)>>)

\* flow pipelines: empty, a call of A at the top, a call of U (never
\* defined) under 1..MaxLoopDepth loops
FlowPipelines ==
    { <<>>, <<Call("A")>> }
    \cup { <<Log, Nested(Call("U"), d)>> : d \in 1..MaxLoopDepth }

ComponentPipelines ==
    { <<>>, <<Call("A")>>, <<Call("B")>>, <<Log, LoopForEach(<<Call("U")>>)>> }

ComponentTables ==
    {None} \cup
    { Some(t) : t \in UNION { [names -> ComponentPipelines] : names \in SUBSET {"A", "B"} } }

LoginFlows ==
    {None} \cup
    { Some([check_login |-> c, pipeline |-> p]) :
        c \in {None} \cup {Some(q) : q \in FlowPipelines}, p \in FlowPipelines }

Rules ==
    [ components : ComponentTables,
      scripting : {None},
      login : LoginFlows,
      list : {None} \cup {Some(p) : p \in FlowPipelines},
      detail : FlowPipelines,
      search : FlowPipelines ]

\* the iteration orders of a HashMap with the keys `keys`
Orders(keys) ==
    { o \in [1..Cardinality(keys) -> keys] : \A k \in keys : \E i \in DOMAIN o : o[i] = k }

\* the engine is not running
EngineIdle ==
    /\ extractor = NoExtractor
    /\ input = ValNull
    /\ context = <<>>
    /\ step = NoStep
    /\ arm = "none"
    /\ primErr = NoError
    /\ fbIdx = 0
    /\ chain = <<>>
    /\ result = NoResult
    /\ calls = <<>>
    /\ trace = <<>>
    /\ defaultReads = 0

InitValidate ==
    /\ rule \in Rules
    /\ keyOrder \in Orders(defined_components(rule))
    /\ errors = <<>>
    /\ verdict = NoVerdict
    /\ walk = NoWalk
    /\ pc = "cycles"
    /\ EngineIdle
    /\ PureIdle

(***************************************************************************)
(* RuleValidator::validate_all (validation.rs 61-83)                       *)
(***************************************************************************)
\* 1. self.validate_component_cycles()
validate_all_cycles ==
    /\ pc = "cycles"
    /\ errors' = errors \o
            (IF rule.components.some
             THEN validate_component_cycles(rule.components.v, keyOrder)
             ELSE <<>>)
    /\ pc' = "flows"
    /\ UNCHANGED <<rule, keyOrder, verdict, walk, engineVars, pureVars>>

\* 2. the flows
validate_all_flows ==
    /\ pc = "flows"
    /\ errors' = errors \o
            validate_flows(rule, defined_components(rule), defined_script_modules(rule))
    /\ pc' = "components"
    /\ UNCHANGED <<rule, keyOrder, verdict, walk, engineVars, pureVars>>

\* 3. the components
validate_all_components ==
    /\ pc = "components"
    /\ errors' = errors \o
            (IF rule.components.some
             THEN validate_components(rule.components.v, keyOrder,
                                      defined_components(rule),
                                      defined_script_modules(rule))
             ELSE <<>>)
    /\ pc' = "result"
    /\ UNCHANGED <<rule, keyOrder, verdict, walk, engineVars, pureVars>>

\* self.errors.clone().into_result()
validate_all_result ==
    /\ pc = "result"
    /\ verdict' = into_result(errors)
    /\ pc' = "validated"
    /\ UNCHANGED <<rule, keyOrder, errors, walk, engineVars, pureVars>>

NextValidate ==
    \/ validate_all_cycles
    \/ validate_all_flows
    \/ validate_all_components
    \/ validate_all_result

SpecValidate == InitValidate /\ [][NextValidate]_vars

(***************************************************************************)
(* The component names a rule calls, for the claims.                       *)
(***************************************************************************)
\* the names called anywhere in a pipeline, sub-pipelines included
RECURSIVE CalledIn(_)
CalledIn(pipeline) ==
    UNION { IF pipeline[i].type = "call" THEN {pipeline[i].component}
            ELSE IF pipeline[i].type = "loop_for_each" THEN CalledIn(pipeline[i].pipeline)
            ELSE {} : i \in 1..Len(pipeline) }

\* the pipelines of a rule other than login.check_login
PipelinesValidated(r) ==
    {r.detail, r.search}
    \cup (IF r.login.some THEN {r.login.v.pipeline} ELSE {})
    \cup (IF r.list.some THEN {r.list.v} ELSE {})
    \cup (IF r.components.some
          THEN {r.components.v[n] : n \in DOMAIN r.components.v} ELSE {})

\* the pipeline login.check_login, when there is one
CheckLoginPipelines(r) ==
    IF r.login.some /\ r.login.v.check_login.some
    THEN {r.login.v.check_login.v} ELSE {}

UndefinedCalled(pipelines) ==
    UNION {CalledIn(p) : p \in pipelines} \ defined_components(rule)

\* validate returned an error that is, or holds, UndefinedComponent{c}
RejectedUndefined(c) ==
    /\ ~verdict.ok
    /\ \/ verdict.err = UndefinedComponent(c)
       \/ /\ verdict.err.type = "MultipleErrors"
          /\ \E i \in 1..Len(verdict.err.errors) :
                verdict.err.errors[i] = UndefinedComponent(c)

(***************************************************************************)
(* C10: a rule that calls a component name its components table does not  *)
(* define, in any pipeline of the rule (a flow's pipeline, the login       *)
(* flow's check_login, a component's pipeline, a nested sub-pipeline), is  *)
(* rejected by validate with UndefinedComponent for that name.  The        *)
(* validator never visits login.check_login, so this fails for a call      *)
(* that occurs only there.                                                 *)
(***************************************************************************)
C10_UndefinedRejected ==
    pc = "validated" =>
        \A c \in UndefinedCalled(PipelinesValidated(rule) \cup CheckLoginPipelines(rule)) :
            RejectedUndefined(c)

\* the same for the pipelines other than check_login: this part holds
C10_OutsideCheckLogin ==
    pc = "validated" =>
        \A c \in UndefinedCalled(PipelinesValidated(rule)) : RejectedUndefined(c)

\* an undefined call nested in a component's pipeline is reported
C10_OutsideWitness ==
    /\ pc = "validated"
    /\ rule.login = None
    /\ rule.list = None
    /\ rule.detail = <<>>
    /\ rule.search = <<>>
    /\ UndefinedCalled(PipelinesValidated(rule)) = {"U"}
    /\ verdict = [ok |-> FALSE, err |-> UndefinedComponent("U")]

(***************************************************************************)
(* Rules for the cycle check: components A, B, C over pipelines with       *)
(* top-level calls, several calls, and calls under LoopForEach.            *)
(***************************************************************************)
CyclePipelines ==
    { <<>>, <<Call("A")>>, <<Call("B")>>, <<Log, Call("B")>>,
      <<Call("C"), Call("A")>>, <<Call("B"), Call("C")>> }
    \cup { <<Nested(Call("A"), d)>> : d \in 1..MaxLoopDepth }

CycleTables ==
    {None} \cup
    { Some(t) : t \in UNION { [names -> CyclePipelines] : names \in SUBSET {"A", "B", "C"} } }

CycleRules ==
    [ components : CycleTables,
      scripting : {None},
      login : {None},
      list : {None},
      detail : { <<>>, <<Call("A")>> },
      search : { <<>> } ]

InitCycles ==
    /\ rule \in CycleRules
    /\ keyOrder \in Orders(defined_components(rule))
    /\ errors = <<>>
    /\ verdict = NoVerdict
    /\ walk = NoWalk
    /\ pc = "cycles"
    /\ EngineIdle
    /\ PureIdle

SpecCycles == InitCycles /\ [][NextValidate]_vars

\* the component names of the top-level Call steps of a pipeline, in order
RECURSIVE TopCalls(_)
TopCalls(pipeline) ==
    IF pipeline = <<>> THEN <<>>
    ELSE (IF Head(pipeline).type = "call" THEN <<Head(pipeline).component>> ELSE <<>>)
            \o TopCalls(Tail(pipeline))

\* position of a key in the iteration order of the components
KeyPos(k) == CHOOSE i \in DOMAIN keyOrder : keyOrder[i] = k

\* components A and B call each other and nothing else; the flows are valid
MutualAB ==
    /\ rule.components.some
    /\ {"A", "B"} \subseteq DOMAIN rule.components.v
    /\ TopCalls(rule.components.v["A"]) = <<"B">>
    /\ TopCalls(rule.components.v["B"]) = <<"A">>
    /\ UndefinedCalled(PipelinesValidated(rule)) = {}

PathABA == <<"A", " -> ", "B", " -> ", "A">>
PathBAB == <<"B", " -> ", "A", " -> ", "B">>

\* some contiguous part of text is part
ContainsSeq(text, part) ==
    \E i \in 0..(Len(text) - Len(part)) : SubSeq(text, i + 1, i + Len(part)) = part

(***************************************************************************)
(* C11 as stated: for components A and B that call each other, validate    *)
(* returns a CircularReference error whose path contains "A -> B -> A".    *)
(* The cycle is reported once from A and once from B, so what validate     *)
(* returns is MultipleErrors and this fails.                               *)
(***************************************************************************)
C11_Original ==
    (pc = "validated" /\ MutualAB) =>
        /\ ~verdict.ok
        /\ verdict.err.type = "CircularReference"
        /\ ContainsSeq(verdict.err.path, PathABA)

(***************************************************************************)
(* C11 amended: for components A and B that call each other, validate      *)
(* returns MultipleErrors{count, errors} with count = |errors| >= 2 whose  *)
(* errors hold CircularReference{"A -> B -> A"} (the walk from A) and      *)
(* CircularReference{"B -> A -> B"} (the walk from B), in the iteration    *)
(* order of the components.                                                *)
(***************************************************************************)
C11_CircularReported ==
    (pc = "validated" /\ MutualAB) =>
        /\ ~verdict.ok
        /\ verdict.err.type = "MultipleErrors"
        /\ verdict.err.count = Len(verdict.err.errors)
        /\ verdict.err.count >= 2
        /\ \E i, j \in 1..Len(verdict.err.errors) :
              /\ verdict.err.errors[i] = CircularReference(PathABA)
              /\ verdict.err.errors[j] = CircularReference(PathBAB)
              /\ (i < j) <=> (KeyPos("A") < KeyPos("B"))

\* the rule of scenario S5 (A = [Call B], B = [Call A]) walked from B first
C11_Witness ==
    /\ pc = "validated"
    /\ MutualAB
    /\ DOMAIN rule.components.v = {"A", "B"}
    /\ keyOrder = <<"B", "A">>
    /\ verdict = [ok |-> FALSE,
                  err |-> MultipleErrors(2, <<CircularReference(PathBAB),
                                              CircularReference(PathABA)>>)]

(***************************************************************************)
(* The component-call graph of a rule.                                     *)
(***************************************************************************)
ComponentsOf(r) == IF r.components.some THEN r.components.v ELSE <<>>

\* edge X -> Y for every Call of Y anywhere in the pipeline of X
CallEdges(r) ==
    { <<x, y>> \in (DOMAIN ComponentsOf(r)) \X {"A", "B", "C", "D", "U"} :
        y \in CalledIn(ComponentsOf(r)[x]) }

\* edge X -> Y for every Call of Y that is a top-level step of X
TopCallEdges(r) ==
    { <<x, y>> \in (DOMAIN ComponentsOf(r)) \X {"A", "B", "C", "D", "U"} :
        \E i \in 1..Len(TopCalls(ComponentsOf(r)[x])) : TopCalls(ComponentsOf(r)[x])[i] = y }

\* the nodes reached from the set S in at most n more steps
RECURSIVE ReachWithin(_, _, _)
ReachWithin(edges, S, n) ==
    IF n = 0 THEN S
    ELSE ReachWithin(edges, S \cup { e[2] : e \in { f \in edges : f[1] \in S } }, n - 1)

\* some node lies on a cycle of the graph
HasCycle(edges) ==
    \E e \in edges : e[1] \in ReachWithin(edges, {e[2]}, Cardinality(edges))

(***************************************************************************)
(* C12: every rule accepted by validate has an acyclic component-call      *)
(* graph, the graph having an edge X -> Y for every Call of Y anywhere in  *)
(* the pipeline of X, calls under LoopForEach included.  detect_cycle      *)
(* follows only the top-level Call steps, so a cycle through a nested      *)
(* call is accepted and this fails.                                        *)
(***************************************************************************)
C12_AcceptedAcyclic ==
    (pc = "validated" /\ verdict.ok) => ~HasCycle(CallEdges(rule))

\* the same for the graph of the top-level calls: this part holds
C12_TopLevelAcyclic ==
    (pc = "validated" /\ verdict.ok) => ~HasCycle(TopCallEdges(rule))

\* a rule with a top-level cycle through three components is rejected
C12_TopLevelWitness ==
    /\ pc = "validated"
    /\ ~verdict.ok
    /\ rule.components.some
    /\ DOMAIN rule.components.v = {"A", "B", "C"}
    /\ TopCalls(rule.components.v["A"]) = <<"B">>
    /\ TopCalls(rule.components.v["B"]) = <<"B", "C">>
    /\ TopCalls(rule.components.v["C"]) = <<>>

(***************************************************************************)
(* Rules with Script steps and a scripting section, next to calls and      *)
(* cycles: the three kinds of error the validator records.                 *)
(***************************************************************************)
\* the call texts of Script steps: "m.f", "n.g.h", "m" (no dot), ".f"
\* (nothing before the dot) and "" (empty)
ScriptCalls ==
    { <<"m", ".", "f">>, <<"n", ".", "g", ".", "h">>, <<"m">>, <<".", "f">>, <<>> }

\* the keys of scripting.modules
ModuleTables == { {}, {<<"m">>}, {<<"m">>, <<"n">>} }

ScriptFlowPipelines ==
    { <<>>, <<Call("U"), Script(<<"m", ".", "f">>)>>, <<Script(<<"n", ".", "g", ".", "h">>), Call("A")>> }
    \cup { <<Script(c)>> : c \in ScriptCalls }
    \cup { <<Log, Nested(Script(<<"m", ".", "f">>), d), Call("U")>> : d \in 1..MaxLoopDepth }

ScriptComponentPipelines ==
    { <<>>, <<Call("B")>>, <<Call("A"), Script(<<"n", ".", "g", ".", "h">>)>> }
    \cup { <<Nested(Script(<<"m", ".", "f">>), d)>> : d \in 1..MaxLoopDepth }

ScriptRules ==
    [ components : {None} \cup
        { Some(t) : t \in UNION { [names -> ScriptComponentPipelines] :
                                    names \in SUBSET {"A", "B"} } },
      scripting : {None} \cup { Some(ms) : ms \in ModuleTables },
      login : { None,
                Some([check_login |-> None, pipeline |-> <<Script(<<"m">>)>>]),
                Some([check_login |-> Some(<<Script(<<"n", ".", "g", ".", "h">>)>>),
                      pipeline |-> <<>>]) },
      list : { None, Some(<<Call("U"), Script(<<"m", ".", "f">>)>>) },
      detail : ScriptFlowPipelines,
      search : { <<>>, <<Script(<<"n", ".", "g", ".", "h">>), Call("A")>> } ]

InitScripts ==
    /\ rule \in ScriptRules
    /\ keyOrder \in Orders(defined_components(rule))
    /\ errors = <<>>
    /\ verdict = NoVerdict
    /\ walk = NoWalk
    /\ pc = "cycles"
    /\ EngineIdle
    /\ PureIdle

SpecScripts == InitScripts /\ [][NextValidate]_vars

(***************************************************************************)
(* The errors a rule deserves, counted from the rule alone.                *)
(***************************************************************************)
\* the module a call text names: the text before its first '.'
ModuleOf(call) ==
    LET dots == { i \in 1..Len(call) : call[i] = "." }
        cut == IF dots = {} THEN Len(call) + 1
               ELSE CHOOSE i \in dots : \A j \in dots : i <= j
    IN  SubSeq(call, 1, cut - 1)

ModulesOf(r) == IF r.scripting.some THEN r.scripting.v ELSE {}

\* the steps of a pipeline, sub-pipelines included, that name an undefined
\* component or an undefined script module
RECURSIVE BadSteps(_, _)
BadSteps(r, pipeline) ==
    IF pipeline = <<>> THEN 0
    ELSE LET stp == Head(pipeline)
             here == IF stp.type = "call"
                     THEN (IF stp.component \in DOMAIN ComponentsOf(r) THEN 0 ELSE 1)
                     ELSE IF stp.type = "script"
                     THEN (IF ModuleOf(stp.call) \in ModulesOf(r) THEN 0 ELSE 1)
                     ELSE IF stp.type = "loop_for_each"
                     THEN BadSteps(r, stp.pipeline)
                     ELSE 0
         IN  here + BadSteps(r, Tail(pipeline))

\* the components from which a cycle of top-level calls can be reached
CycleStarts(r) ==
    { k \in DOMAIN ComponentsOf(r) :
        \E e \in TopCallEdges(r) :
            /\ e[1] \in ReachWithin(TopCallEdges(r), {k}, Cardinality(TopCallEdges(r)))
            /\ e[1] \in ReachWithin(TopCallEdges(r), {e[2]}, Cardinality(TopCallEdges(r))) }

RECURSIVE SumOver(_, _)
SumOver(S, f) ==
    IF S = {} THEN 0
    ELSE LET x == CHOOSE y \in S : TRUE IN f[x] + SumOver(S \ {x}, f)

\* errors of the flows the validator visits, of the components
FlowErrorCount(r) ==
    (IF r.login.some THEN BadSteps(r, r.login.v.pipeline) ELSE 0)
    + (IF r.list.some THEN BadSteps(r, r.list.v) ELSE 0)
    + BadSteps(r, r.detail) + BadSteps(r, r.search)

ComponentErrorCount(r) ==
    SumOver(DOMAIN ComponentsOf(r),
            [k \in DOMAIN ComponentsOf(r) |-> BadSteps(r, ComponentsOf(r)[k])])

ExpectedErrorCount(r) ==
    Cardinality(CycleStarts(r)) + FlowErrorCount(r) + ComponentErrorCount(r)

(***************************************************************************)
(* C13: validation never short-circuits.  Every check records its error    *)
(* whatever was recorded before (one CircularReference per component from  *)
(* which a cycle is reached, then one error per offending step of the      *)
(* flows, then of the components), and the outcome is Ok for no error,     *)
(* the error itself for one, MultipleErrors{count, errors} with count the  *)
(* number of recorded errors, in recording order, for two or more.         *)
(***************************************************************************)
C13_AllErrorsCollected ==
    pc = "validated" =>
        LET n == ExpectedErrorCount(rule)
            c == Cardinality(CycleStarts(rule))
        IN  /\ Len(errors) = n
            /\ \A i \in 1..n : (errors[i].type = "CircularReference") <=> (i <= c)
            /\ \A i \in (c + 1)..(c + FlowErrorCount(rule)) :
                    errors[i].type \in {"UndefinedComponent", "UndefinedScriptModule"}
            /\ n = 0 => verdict = [ok |-> TRUE]
            /\ n = 1 => verdict = [ok |-> FALSE, err |-> errors[1]]
            /\ n >= 2 => /\ ~verdict.ok
                         /\ verdict.err.type = "MultipleErrors"
                         /\ verdict.err.count = n
                         /\ verdict.err.errors = errors

\* a cycle, two offending steps in one flow pipeline and one in a
\* component: every one of them is in the composite error
C13_Witness ==
    /\ pc = "validated"
    /\ Cardinality(CycleStarts(rule)) = 2
    /\ FlowErrorCount(rule) >= 2
    /\ BadSteps(rule, rule.detail) = 2
    /\ ComponentErrorCount(rule) = 1
    /\ verdict.err.type = "MultipleErrors"
    /\ verdict.err.count = ExpectedErrorCount(rule)


(***************************************************************************)
(* is_truthy on its own: one call on a value of every shape.               *)
(***************************************************************************)
TruthTexts == { <<>>, <<"a">>, <<" ">>, <<"0">>, <<"f", "a", "l", "s", "e">> }

TruthJsons ==
    { JNull, JBool(TRUE), JBool(FALSE) }
    \cup { JNum(n) : n \in {-1, 0, 1} }
    \cup { JStr(t) : t \in TruthTexts }
    \cup { JArr(a) : a \in SeqsUpTo({JNull, JBool(FALSE)}, MaxItems) }
    \cup { JObj(<<>>), JObj([a |-> JNull]), JObj([a |-> JBool(FALSE), b |-> JNum(0)]) }

TruthInputs ==
    { ValNull }
    \cup { ValString(t) : t \in TruthTexts }
    \cup { ValHtml(t) : t \in TruthTexts }
    \cup { ValArray(a) : a \in SeqsUpTo({ValNull, ValString(<<>>)}, MaxItems) }
    \cup { ValJson(j) : j \in TruthJsons }

InitTruthy ==
    /\ fnCall \in { [fn |-> "is_truthy", args |-> <<v>>] : v \in TruthInputs }
    /\ fnRet = NoReturn
    /\ pc = "call"
    /\ EngineIdle
    /\ ValidatorIdle

is_truthy_call ==
    /\ pc = "call"
    /\ fnCall.fn = "is_truthy"
    /\ fnRet' = Returned(is_truthy(fnCall.args[1]))
    /\ pc' = "returned"
    /\ UNCHANGED <<fnCall, engineVars, validatorVars>>

NextTruthy == is_truthy_call

SpecTruthy == InitTruthy /\ [][NextTruthy]_vars

\* the values the table lists as not truthy
NotTruthyTable ==
    { ValNull, ValString(<<>>), ValHtml(<<>>), ValArray(<<>>),
      ValJson(JNull), ValJson(JBool(FALSE)), ValJson(JStr(<<>>)), ValJson(JArr(<<>>)) }

(***************************************************************************)
(* C14: is_truthy follows the truthiness table.  It is false for Null,     *)
(* the empty String, Html and Array, and Json null, false, "" and [];     *)
(* it is true for every other value: a non-empty String, Html or Array,    *)
(* Json true, every Json number (0 too), every Json object ({} too), and   *)
(* the non-empty Json strings and arrays.                                  *)
(***************************************************************************)
C14_TruthTable ==
    pc = "returned" =>
        LET v == fnCall.args[1]
        IN  /\ fnRet.returned
            /\ v \in NotTruthyTable => fnRet.v = FALSE
            /\ v \notin NotTruthyTable => fnRet.v = TRUE
            /\ (v.tag = "Json" /\ v.j.k \in {"num", "obj"}) => fnRet.v = TRUE
            /\ (v.tag \in {"String", "Html"} /\ Len(v.s) > 0) => fnRet.v = TRUE
            /\ (v.tag = "Array" /\ Len(v.items) > 0) => fnRet.v = TRUE

\* Json 0 is truthy
C14_Witness ==
    /\ pc = "returned"
    /\ fnCall.args[1] = ValJson(JNum(0))
    /\ fnRet = Returned(TRUE)

\* Json {} is truthy, an array of empty values is truthy
C14_WitnessObject ==
    /\ pc = "returned"
    /\ fnCall.args[1] \in { ValJson(JObj(<<>>)), ValArray(<<ValNull>>) }
    /\ fnRet = Returned(TRUE)


(***************************************************************************)
(* Identifier (src/schema/types.rs).  A name is a sequence of characters.  *)
(***************************************************************************)
AsciiLower ==
    { "a", "b", "c", "d", "e", "f", "g", "h", "i", "j", "k", "l", "m",
      "n", "o", "p", "q", "r", "s", "t", "u", "v", "w", "x", "y", "z" }

AsciiUpper ==
    { "A", "B", "C", "D", "E", "F", "G", "H", "I", "J", "K", "L", "M",
      "N", "O", "P", "Q", "R", "S", "T", "U", "V", "W", "X", "Y", "Z" }

AsciiDigit == { "0", "1", "2", "3", "4", "5", "6", "7", "8", "9" }

\* CrawlerError::InvalidIdentifier{identifier, reason}
InvalidIdentifier(identifier) ==
    [type |-> "InvalidIdentifier", identifier |-> identifier,
     reason |-> "must start with a letter or underscore; letters, digits, underscores only"]

\* the tail of IDENTIFIER_PATTERN: [a-zA-Z0-9_]*$
RECURSIVE pattern_tail_is_match(_)
pattern_tail_is_match(text) ==
    IF text = <<>> THEN TRUE
    ELSE /\ Head(text) \in AsciiLower \cup AsciiUpper \cup AsciiDigit \cup {"_"}
         /\ pattern_tail_is_match(Tail(text))

\* IDENTIFIER_PATTERN.is_match(s): ^[a-zA-Z_][a-zA-Z0-9_]*$
IDENTIFIER_PATTERN_is_match(text) ==
    IF text = <<>> THEN FALSE
    ELSE /\ Head(text) \in AsciiLower \cup AsciiUpper \cup {"_"}
         /\ pattern_tail_is_match(Tail(text))

\* is_valid with the pattern not anchored at the end: ^[a-zA-Z_][a-zA-Z0-9_]*
Identifier_is_valid_prefix(text) ==
    text # <<>> /\ Head(text) \in AsciiLower \cup AsciiUpper \cup {"_"}

\* Identifier::is_valid
Identifier_is_valid(text) ==
    text # <<>> /\ IDENTIFIER_PATTERN_is_match(text)

\* Identifier::new
Identifier_new(text) ==
    IF Identifier_is_valid(text)
    THEN [ok |-> TRUE, val |-> text]
    ELSE [ok |-> FALSE, err |-> InvalidIdentifier(text)]

\* longest name drawn from the alphabet
MaxIdLen == 3

\* a lower and an upper case letter, the underscore, a digit, the dash, the
\* space and the line feed
IdAlphabet == { "a", "Z", "_", "1", "-", " ", "\n" }

\* the names of the tests of types.rs
NamesOfTests ==
    { <<"v", "a", "l", "i", "d", "_", "n", "a", "m", "e">>,
      <<"_", "p", "r", "i", "v", "a", "t", "e">>,
      <<"N", "a", "m", "e", "1", "2", "3">>,
      <<"1", "2", "3", "s", "t", "a", "r", "t">>,
      <<"h", "a", "s", "-", "d", "a", "s", "h">>,
      <<"h", "a", "s", " ", "s", "p", "a", "c", "e">>,
      <<>> }

IdInputs == SeqsUpTo(IdAlphabet, MaxIdLen) \cup NamesOfTests

InitIdentifier ==
    /\ fnCall \in { [fn |-> "Identifier::new", args |-> <<t>>] : t \in IdInputs }
    /\ fnRet = NoReturn
    /\ pc = "call"
    /\ EngineIdle
    /\ ValidatorIdle

Identifier_new_call ==
    /\ pc = "call"
    /\ fnCall.fn = "Identifier::new"
    /\ fnRet' = Returned(Identifier_new(fnCall.args[1]))
    /\ pc' = "returned"
    /\ UNCHANGED <<fnCall, engineVars, validatorVars>>

NextIdentifier == Identifier_new_call

SpecIdentifier == InitIdentifier /\ [][NextIdentifier]_vars

(***************************************************************************)
(* C16: Identifier::new(s) succeeds exactly when s is non-empty, its first *)
(* character is an ASCII letter or the underscore and every other          *)
(* character an ASCII letter, a digit or the underscore; otherwise it      *)
(* returns InvalidIdentifier carrying s.  "123start", "has-dash",          *)
(* "has space" and "" are rejected.                                        *)
(***************************************************************************)
C16_IdentifierNew ==
    pc = "returned" =>
        LET s == fnCall.args[1]
            wellFormed ==
                /\ Len(s) >= 1
                /\ s[1] \in AsciiLower \cup AsciiUpper \cup {"_"}
                /\ \A i \in 2..Len(s) :
                        s[i] \in AsciiLower \cup AsciiUpper \cup AsciiDigit \cup {"_"}
        IN  /\ fnRet.returned
            /\ fnRet.v.ok <=> wellFormed
            /\ fnRet.v.ok => fnRet.v.val = s
            /\ ~fnRet.v.ok => /\ fnRet.v.err.type = "InvalidIdentifier"
                              /\ fnRet.v.err.identifier = s
            /\ s \in { <<"1", "2", "3", "s", "t", "a", "r", "t">>,
                       <<"h", "a", "s", "-", "d", "a", "s", "h">>,
                       <<"h", "a", "s", " ", "s", "p", "a", "c", "e">>,
                       <<>> } => ~fnRet.v.ok

\* "has-dash" is rejected and the error carries it
C16_Witness ==
    /\ pc = "returned"
    /\ fnCall.args[1] = <<"h", "a", "s", "-", "d", "a", "s", "h">>
    /\ ~fnRet.v.ok
    /\ fnRet.v.err.identifier = fnCall.args[1]

\* "_private" is accepted
C16_WitnessAccepted ==
    /\ pc = "returned"
    /\ fnCall.args[1] = <<"_", "p", "r", "i", "v", "a", "t", "e">>
    /\ fnRet.v = [ok |-> TRUE, val |-> fnCall.args[1]]


(***************************************************************************)
(* Rules whose declared names are texts: the keys of components and of     *)
(* scripting.modules, the variable a LoopForEach declares (`as`).          *)
(***************************************************************************)
\* StepLoopForEach{as, pipeline}
LoopForEachAs(as, pipeline) ==
    [type |-> "loop_for_each", as |-> as, pipeline |-> pipeline]

\* "A", "1a", "has-dash" and the empty name
ComponentNames ==
    { <<"A">>, <<"1", "a">>, <<"h", "a", "s", "-", "d", "a", "s", "h">>, <<>> }

\* "m" and "n-1"
ModuleNames == { <<"m">>, <<"n", "-", "1">> }

NameFlowPipelines ==
    { <<>>,
      <<Script(<<"m", ".", "f">>)>>,
      <<Script(<<"n", "-", "1", ".", "f">>)>>,
      <<LoopForEachAs(<<"i", "t", "e", "m">>, <<Log>>)>>,
      <<LoopForEachAs(<<"m", "y", " ", "i", "t", "e", "m">>, <<Log>>)>> }

NameRules ==
    [ components : {None} \cup
        { Some(t) : t \in UNION { [names -> { <<>>, <<Log>> }] :
                                    names \in SUBSET ComponentNames } },
      scripting : {None} \cup { Some(ms) : ms \in SUBSET ModuleNames },
      login : {None},
      list : {None},
      detail : NameFlowPipelines,
      search : { <<>> } ]

InitNames ==
    /\ rule \in NameRules
    /\ keyOrder \in Orders(defined_components(rule))
    /\ errors = <<>>
    /\ verdict = NoVerdict
    /\ walk = NoWalk
    /\ pc = "cycles"
    /\ EngineIdle
    /\ PureIdle

SpecNames == InitNames /\ [][NextValidate]_vars

\* the variables the LoopForEach steps of a pipeline declare
RECURSIVE LoopNames(_)
LoopNames(pipeline) ==
    UNION { IF pipeline[i].type = "loop_for_each"
            THEN (IF "as" \in DOMAIN pipeline[i] THEN {pipeline[i].as} ELSE {})
                    \cup LoopNames(pipeline[i].pipeline)
            ELSE {} : i \in 1..Len(pipeline) }

\* the names a rule declares
DeclaredNames(r) ==
    DOMAIN ComponentsOf(r)
    \cup ModulesOf(r)
    \cup UNION { LoopNames(p) : p \in PipelinesValidated(r) }

\* validate returned an error that is, or holds, InvalidIdentifier
RejectedInvalidIdentifier ==
    /\ ~verdict.ok
    /\ \/ verdict.err.type = "InvalidIdentifier"
       \/ /\ verdict.err.type = "MultipleErrors"
          /\ \E i \in 1..Len(verdict.err.errors) :
                verdict.err.errors[i].type = "InvalidIdentifier"

(***************************************************************************)
(* C15: the validator rejects, with an InvalidIdentifier error, every rule *)
(* that declares a name (a component name, a script module name, a step    *)
(* variable name) that is not an identifier.  The validator never checks   *)
(* a name, so this fails.                                                  *)
(***************************************************************************)
C15_InvalidNamesRejected ==
    (pc = "validated" /\ \E n \in DeclaredNames(rule) : ~Identifier_is_valid(n))
        => RejectedInvalidIdentifier


\* the modules the Script steps of a pipeline name, sub-pipelines included
RECURSIVE ModulesNamedIn(_)
ModulesNamedIn(pipeline) ==
    UNION { IF pipeline[i].type = "script" THEN {ModuleOf(pipeline[i].call)}
            ELSE IF pipeline[i].type = "loop_for_each"
            THEN ModulesNamedIn(pipeline[i].pipeline)
            ELSE {} : i \in 1..Len(pipeline) }

UndefinedModulesNamed(pipelines) ==
    UNION { ModulesNamedIn(p) : p \in pipelines } \ ModulesOf(rule)

\* validate returned an error that is, or holds, UndefinedScriptModule{m}
RejectedUndefinedModule(m) ==
    /\ ~verdict.ok
    /\ \/ verdict.err = UndefinedScriptModule(m)
       \/ /\ verdict.err.type = "MultipleErrors"
          /\ \E i \in 1..Len(verdict.err.errors) :
                verdict.err.errors[i] = UndefinedScriptModule(m)

(***************************************************************************)
(* C17: every rule with a Script step whose call names a module (the text  *)
(* before the first '.') that is not a key of scripting.modules is         *)
(* rejected by validate with UndefinedScriptModule for that module: every  *)
(* Script step when there is no scripting section, and Script steps in     *)
(* sub-pipelines and component pipelines as in flows.  The validator never *)
(* visits login.check_login (C10), so this fails for a Script step that    *)
(* occurs only there.                                                      *)
(***************************************************************************)
C17_UndefinedModuleRejected ==
    pc = "validated" =>
        \A m \in UndefinedModulesNamed(PipelinesValidated(rule) \cup CheckLoginPipelines(rule)) :
            RejectedUndefinedModule(m)

\* the same for the pipelines other than check_login: this part holds
C17_OutsideCheckLogin ==
    pc = "validated" =>
        \A m \in UndefinedModulesNamed(PipelinesValidated(rule)) :
            RejectedUndefinedModule(m)

\* no scripting section: a Script step under a loop in a component is
\* reported
C17_OutsideWitness ==
    /\ pc = "validated"
    /\ rule.scripting = None
    /\ rule.login = None
    /\ rule.list = None
    /\ rule.detail = <<>>
    /\ rule.search = <<>>
    /\ UndefinedModulesNamed(PipelinesValidated(rule)) = {<<"m">>}
    /\ verdict = [ok |-> FALSE, err |-> UndefinedScriptModule(<<"m">>)]

(***************************************************************************)
(* ScriptSecurityConfig (crates/schema/src/config/script_security.rs)      *)
(***************************************************************************)
ScriptSecurityConfig(max_memory_mb, allow_file_access, allow_network, timeout_seconds) ==
    [max_memory_mb |-> max_memory_mb, allow_file_access |-> allow_file_access,
     allow_network |-> allow_network, timeout_seconds |-> timeout_seconds]

\* merge_with where a Some field of the global config wins over the local one
merge_with_global_first(self, global) ==
    IF global.some
    THEN [self EXCEPT
            !.max_memory_mb = IF global.v.max_memory_mb.some
                              THEN global.v.max_memory_mb ELSE @,
            !.allow_file_access = @ \/ global.v.allow_file_access,
            !.allow_network = @ \/ global.v.allow_network,
            !.timeout_seconds = IF global.v.timeout_seconds.some
                                THEN global.v.timeout_seconds ELSE @]
    ELSE self

\* ScriptSecurityConfig::merge_with(self, global: Option<&ScriptSecurityConfig>)
merge_with(self, global) ==
    IF global.some
    THEN LET s1 == IF ~self.max_memory_mb.some
                   THEN [self EXCEPT !.max_memory_mb = global.v.max_memory_mb]
                   ELSE self
             s2 == IF ~s1.allow_file_access /\ global.v.allow_file_access
                   THEN [s1 EXCEPT !.allow_file_access = TRUE]
                   ELSE s1
             s3 == IF ~s2.allow_network /\ global.v.allow_network
                   THEN [s2 EXCEPT !.allow_network = TRUE]
                   ELSE s2
             s4 == IF ~s3.timeout_seconds.some
                   THEN [s3 EXCEPT !.timeout_seconds = global.v.timeout_seconds]
                   ELSE s3
         IN  s4
    ELSE self

SecurityConfigs ==
    { ScriptSecurityConfig(m, f, n, t) :
        m \in { None, Some(64), Some(128) }, f \in BOOLEAN, n \in BOOLEAN,
        t \in { None, Some(0), Some(30) } }

InitSecurity ==
    /\ fnCall \in { [fn |-> "merge_with", args |-> <<l, g>>] :
                      l \in SecurityConfigs,
                      g \in {None} \cup { Some(c) : c \in SecurityConfigs } }
    /\ fnRet = NoReturn
    /\ pc = "call"
    /\ EngineIdle
    /\ ValidatorIdle

merge_with_call ==
    /\ pc = "call"
    /\ fnCall.fn = "merge_with"
    /\ fnRet' = Returned(merge_with(fnCall.args[1], fnCall.args[2]))
    /\ pc' = "returned"
    /\ UNCHANGED <<fnCall, engineVars, validatorVars>>

NextSecurity == merge_with_call

SpecSecurity == InitSecurity /\ [][NextSecurity]_vars

Option_merge_self_first(self, other) ==
    IF self.some THEN self ELSE other

\* ConfigMerge for Option<T>: other.clone().or_else(|| self.clone())
Option_merge(self, other) ==
    IF other.some THEN other ELSE self

\* ConfigMerge for HashMap<K, V>: result = self.clone(); insert every (k, v)
\* of other
HashMap_merge(self, other) ==
    [k \in DOMAIN self \cup DOMAIN other |->
        IF k \in DOMAIN other THEN other[k] ELSE self[k]]

\* ConfigMerge for HttpConfig
HttpConfig_merge(self, other) ==
    [ user_agent |-> Option_merge(self.user_agent, other.user_agent),
      timeout |-> Option_merge(self.timeout, other.timeout),
      proxy |-> Option_merge(self.proxy, other.proxy),
      headers |->
          CASE self.headers.some /\ other.headers.some ->
                    Some(HashMap_merge(self.headers.v, other.headers.v))
            [] ~self.headers.some /\ other.headers.some -> other.headers
            [] self.headers.some /\ ~other.headers.some -> self.headers
            [] OTHER -> None,
      follow_redirects |-> Option_merge(self.follow_redirects, other.follow_redirects),
      max_redirects |-> Option_merge(self.max_redirects, other.max_redirects),
      connect_timeout |-> Option_merge(self.connect_timeout, other.connect_timeout),
      verify_ssl |-> Option_merge(self.verify_ssl, other.verify_ssl),
      request_delay |-> Option_merge(self.request_delay, other.request_delay),
      max_concurrent |-> Option_merge(self.max_concurrent, other.max_concurrent),
      retry_count |-> Option_merge(self.retry_count, other.retry_count),
      retry_delay |-> Option_merge(self.retry_delay, other.retry_delay) ]

\* the fields of HttpConfig other than user_agent, timeout and headers:
\* all unset, set one way, set another way, every second one set
HttpRestProfiles ==
    { [ proxy |-> None, follow_redirects |-> None, max_redirects |-> None,
        connect_timeout |-> None, verify_ssl |-> None, request_delay |-> None,
        max_concurrent |-> None, retry_count |-> None, retry_delay |-> None ],
      [ proxy |-> Some("http://proxy:8080"), follow_redirects |-> Some(TRUE),
        max_redirects |-> Some(10), connect_timeout |-> Some(5),
        verify_ssl |-> Some(TRUE), request_delay |-> Some(100),
        max_concurrent |-> Some(4), retry_count |-> Some(3),
        retry_delay |-> Some(500) ],
      [ proxy |-> Some("socks5://local:1080"), follow_redirects |-> Some(FALSE),
        max_redirects |-> Some(0), connect_timeout |-> Some(1),
        verify_ssl |-> Some(FALSE), request_delay |-> Some(0),
        max_concurrent |-> Some(1), retry_count |-> Some(0),
        retry_delay |-> Some(0) ],
      [ proxy |-> None, follow_redirects |-> Some(FALSE),
        max_redirects |-> None, connect_timeout |-> Some(2),
        verify_ssl |-> None, request_delay |-> Some(7),
        max_concurrent |-> None, retry_count |-> Some(9),
        retry_delay |-> None ] }

HeaderMaps ==
    { <<>>, [Accept |-> "a"], [Accept |-> "b", Cookie |-> "c"], [Referer |-> "r"] }

HttpConfigs ==
    { [ user_agent |-> ua, timeout |-> t, proxy |-> rest.proxy, headers |-> h,
        follow_redirects |-> rest.follow_redirects,
        max_redirects |-> rest.max_redirects,
        connect_timeout |-> rest.connect_timeout,
        verify_ssl |-> rest.verify_ssl,
        request_delay |-> rest.request_delay,
        max_concurrent |-> rest.max_concurrent,
        retry_count |-> rest.retry_count,
        retry_delay |-> rest.retry_delay ] :
        ua \in { None, Some("GlobalUA") },
        t \in { None, Some(30), Some(60) },
        h \in {None} \cup { Some(m) : m \in HeaderMaps },
        rest \in HttpRestProfiles }

OptionValues == { None, Some(1), Some(2) }

InitMerge ==
    /\ fnCall \in
            { [fn |-> "Option::merge", args |-> <<a, b>>] :
                a \in OptionValues, b \in OptionValues }
            \cup { [fn |-> "HashMap::merge", args |-> <<a, b>>] :
                a \in HeaderMaps, b \in HeaderMaps }
            \cup { [fn |-> "HttpConfig::merge", args |-> <<a, b>>] :
                a \in HttpConfigs, b \in HttpConfigs }
    /\ fnRet = NoReturn
    /\ pc = "call"
    /\ EngineIdle
    /\ ValidatorIdle

Option_merge_call ==
    /\ pc = "call"
    /\ fnCall.fn = "Option::merge"
    /\ fnRet' = Returned(Option_merge(fnCall.args[1], fnCall.args[2]))
    /\ pc' = "returned"
    /\ UNCHANGED <<fnCall, engineVars, validatorVars>>

HashMap_merge_call ==
    /\ pc = "call"
    /\ fnCall.fn = "HashMap::merge"
    /\ fnRet' = Returned(HashMap_merge(fnCall.args[1], fnCall.args[2]))
    /\ pc' = "returned"
    /\ UNCHANGED <<fnCall, engineVars, validatorVars>>

HttpConfig_merge_call ==
    /\ pc = "call"
    /\ fnCall.fn = "HttpConfig::merge"
    /\ fnRet' = Returned(HttpConfig_merge(fnCall.args[1], fnCall.args[2]))
    /\ pc' = "returned"
    /\ UNCHANGED <<fnCall, engineVars, validatorVars>>

NextMerge ==
    \/ Option_merge_call
    \/ HashMap_merge_call
    \/ HttpConfig_merge_call

SpecMerge == InitMerge /\ [][NextMerge]_vars

\* the Option fields of HttpConfig that hold a scalar
HttpScalarFields ==
    { "user_agent", "timeout", "proxy", "follow_redirects", "max_redirects",
      "connect_timeout", "verify_ssl", "request_delay", "max_concurrent",
      "retry_count", "retry_delay" }

\* m has every key of a or b, with b's value on the keys of b
OverlaidMap(m, a, b) ==
    /\ DOMAIN m = DOMAIN a \cup DOMAIN b
    /\ \A k \in DOMAIN b : m[k] = b[k]
    /\ \A k \in DOMAIN a \ DOMAIN b : m[k] = a[k]

(***************************************************************************)
(* C19: ConfigMerge gives the overlay priority field by field.  For an     *)
(* Option, a.merge(b) is b when b is Some and a otherwise.  For maps the   *)
(* result has every key of either side, with b's value on shared keys.     *)
(* HttpConfig.merge applies this per field: a field set only in the        *)
(* global config is kept, a field set in the local config overrides the    *)
(* global one (headers set on both sides are merged as maps, key by key).  *)
(***************************************************************************)
C19_ConfigMerge ==
    pc = "returned" =>
        LET a == fnCall.args[1]
            b == fnCall.args[2]
            m == fnRet.v
        IN  /\ fnRet.returned
            /\ fnCall.fn = "Option::merge" =>
                    /\ b # None => m = b
                    /\ b = None => m = a
            /\ fnCall.fn = "HashMap::merge" => OverlaidMap(m, a, b)
            /\ fnCall.fn = "HttpConfig::merge" =>
                    /\ DOMAIN m = HttpScalarFields \cup {"headers"}
                    /\ \A f \in HttpScalarFields :
                          /\ b[f] # None => m[f] = b[f]
                          /\ b[f] = None => m[f] = a[f]
                    /\ b.headers = None => m.headers = a.headers
                    /\ (a.headers = None /\ b.headers # None) => m.headers = b.headers
                    /\ (a.headers # None /\ b.headers # None) =>
                          /\ m.headers # None
                          /\ OverlaidMap(m.headers.v, a.headers.v, b.headers.v)

\* test_http_config_merge: the global user agent and proxy are kept, the
\* local timeout 30 overrides the global 60, the shared header Accept takes
\* the local value and the global-only header Cookie is kept
C19_Witness ==
    /\ pc = "returned"
    /\ fnCall.fn = "HttpConfig::merge"
    /\ fnCall.args[1].user_agent = Some("GlobalUA")
    /\ fnCall.args[1].timeout = Some(60)
    /\ fnCall.args[1].proxy = Some("http://proxy:8080")
    /\ fnCall.args[1].headers = Some([Accept |-> "b", Cookie |-> "c"])
    /\ fnCall.args[2].user_agent = None
    /\ fnCall.args[2].timeout = Some(30)
    /\ fnCall.args[2].proxy = None
    /\ fnCall.args[2].headers = Some([Accept |-> "a"])
    /\ fnRet.v.user_agent = Some("GlobalUA")
    /\ fnRet.v.timeout = Some(30)
    /\ fnRet.v.proxy = Some("http://proxy:8080")
    /\ fnRet.v.headers = Some([Accept |-> "a", Cookie |-> "c"])


(***************************************************************************)
(* The Const step on its own: every JSON literal of the pool, scalars,     *)
(* arrays and arrays in arrays, on several inputs.                         *)
(***************************************************************************)
ConstScalars ==
    { JNull, JBool(TRUE), JBool(FALSE), JNum(0), JNum(7),
      JStr(<<>>), JStr(<<"a">>), JObj(<<>>), JObj([a |-> JStr(<<"x">>)]) }

ConstElements ==
    { JStr(<<"a">>), JNum(0), JNull, JArr(<<>>), JArr(<<JStr(<<"b">>), JBool(TRUE)>>),
      JArr(<<JArr(<<JStr(<<>>)>>)>>) }

ConstJsons ==
    ConstScalars \cup { JArr(a) : a \in SeqsUpTo(ConstElements, MaxItems) }

ConstInputs ==
    { ValNull, ValString(<<"s">>), ValHtml(<<"h">>), ValArray(<<ValString(<<"i">>)>>),
      ValJson(JNum(1)) }

InitConst ==
    /\ step \in { Const(j) : j \in ConstJsons }
    /\ input \in ConstInputs
    /\ context \in Contexts
    /\ pc = "const"
    /\ extractor = NoExtractor
    /\ arm = "none"
    /\ primErr = NoError
    /\ fbIdx = 0
    /\ chain = <<>>
    /\ result = NoResult
    /\ calls = <<>>
    /\ trace = <<>>
    /\ defaultReads = 0
    /\ ValidatorIdle
    /\ PureIdle

\* StepExecutorFactory dispatches ExtractStep::Const(value) to
\* ConstExecutor::execute
const_execute_call ==
    /\ pc = "const"
    /\ result' = StepExecutorFactory_execute(step, input, context)
    /\ pc' = "done"
    /\ UNCHANGED <<pureVars, validatorVars, extractor, input, context, step, arm, primErr,
                   fbIdx, chain, calls, trace, defaultReads>>

NextConst == const_execute_call

SpecConst == InitConst /\ [][NextConst]_vars

\* v is the value the claim gives for the JSON j: String for a JSON string,
\* an Array of the values of the elements, in order, for a JSON array, Json
\* holding j for null, bool, number and object
RECURSIVE ValueOfJson(_, _)
ValueOfJson(v, j) ==
    IF j.k = "str" THEN v = ValString(j.s)
    ELSE IF j.k = "arr"
    THEN /\ v.tag = "Array"
         /\ Len(v.items) = Len(j.items)
         /\ \A i \in 1..Len(j.items) : ValueOfJson(v.items[i], j.items[i])
    ELSE /\ j.k \in {"null", "bool", "num", "obj"}
         /\ v = ValJson(j)

(***************************************************************************)
(* C20: Const(json) ignores its input and always succeeds with             *)
(* from_json(json): a JSON string gives String, a JSON array gives an      *)
(* Array of from_json of each element, in order and recursively, and       *)
(* every other JSON value (null, bool, number, object) gives Json holding  *)
(* that value.                                                             *)
(***************************************************************************)
C20_Const ==
    (pc = "done" /\ step.kind = "Const") =>
        /\ result.ok
        /\ ValueOfJson(result.val, step.value)

\* an array in an array on an Html input: the inner string elements are
\* Strings, the inner bool is Json, nothing of the input is in the result
C20_Witness ==
    /\ pc = "done"
    /\ step = Const(JArr(<<JNull, JArr(<<JStr(<<"b">>), JBool(TRUE)>>)>>))
    /\ input = ValHtml(<<"h">>)
    /\ result = Ok(ValArray(<<ValJson(JNull),
                              ValArray(<<ValString(<<"b">>), ValJson(JBool(TRUE))>>)>>))


(***************************************************************************)
(* Text helpers of the filters: str::starts_with, str::find,               *)
(* str::trim_end_matches, on sequences of characters.                      *)
(***************************************************************************)
\* ExtractValueData::as_str
as_str(v) == IF v.tag \in {"String", "Html"} THEN Some(v.s) ELSE None

\* serde_json::Value::as_str
Value_as_str(j) == IF j.k = "str" THEN Some(j.s) ELSE None

starts_with(text, prefix) ==
    Len(prefix) <= Len(text) /\ SubSeq(text, 1, Len(prefix)) = prefix

\* str::find: the 0-based offset of the first occurrence of pat, if any
find(text, pat) ==
    LET hits == { i \in 0..(Len(text) - Len(pat)) :
                    SubSeq(text, i + 1, i + Len(pat)) = pat }
    IN  IF hits = {} THEN None
        ELSE Some(CHOOSE i \in hits : \A j \in hits : i <= j)

\* str::trim_end_matches(ch): every trailing ch removed
RECURSIVE trim_end_matches(_, _)
trim_end_matches(text, ch) ==
    IF text # <<>> /\ text[Len(text)] = ch
    THEN trim_end_matches(SubSeq(text, 1, Len(text) - 1), ch)
    ELSE text

\* &text[from..] with a 0-based offset
SliceFrom(text, from) == SubSeq(text, from + 1, Len(text))

\* &text[..to] with a 0-based offset
SliceTo(text, to) == SubSeq(text, 1, to)

HttpPrefix == <<"h", "t", "t", "p", ":", "/", "/">>
HttpsPrefix == <<"h", "t", "t", "p", "s", ":", "/", "/">>
SchemeSep == <<":", "/", "/">>

(***************************************************************************)
(* AbsoluteUrlFilter (filter/url.rs)                                       *)
(***************************************************************************)
\* apply that joins an absolute path to the whole base, not to its origin
AbsoluteUrlFilter_apply_no_origin(inp, args) ==
    LET url == as_str(inp)
        base_url == IF args = <<>> THEN None ELSE Value_as_str(args[1])
    IN  IF ~url.some
        THEN Err(Extraction(<<"absolute_url filter requires string input">>))
        ELSE IF starts_with(url.v, HttpPrefix) \/ starts_with(url.v, HttpsPrefix)
        THEN Ok(ValString(url.v))
        ELSE IF ~base_url.some
        THEN Err(Extraction(<<"absolute_url filter requires base_url argument">>))
        ELSE IF starts_with(url.v, <<"/">>)
        THEN Ok(ValString(trim_end_matches(base_url.v, "/") \o url.v))
        ELSE Ok(ValString(trim_end_matches(base_url.v, "/") \o <<"/">> \o url.v))

\* AbsoluteUrlFilter::apply(input, args)
AbsoluteUrlFilter_apply(inp, args) ==
    LET url == as_str(inp)
        base_url == IF args = <<>> THEN None ELSE Value_as_str(args[1])
    IN  IF ~url.some
        THEN Err(Extraction(<<"absolute_url filter requires string input">>))
        ELSE IF starts_with(url.v, HttpPrefix) \/ starts_with(url.v, HttpsPrefix)
        THEN Ok(ValString(url.v))
        ELSE IF ~base_url.some
        THEN Err(Extraction(<<"absolute_url filter requires base_url argument">>))
        ELSE IF starts_with(url.v, <<"/">>)
        THEN LET base == trim_end_matches(base_url.v, "/")
                 idx == find(base, SchemeSep)
             IN  IF idx.some
                 THEN LET path_start == find(SliceFrom(base, idx.v + 3), <<"/">>)
                      IN  IF path_start.some
                          THEN Ok(ValString(SliceTo(base, idx.v + 3 + path_start.v) \o url.v))
                          ELSE Ok(ValString(base \o url.v))
                 ELSE Ok(ValString(base \o url.v))
        ELSE LET base == trim_end_matches(base_url.v, "/")
             IN  Ok(ValString(base \o <<"/">> \o url.v))

\* most '/' at the end of a base
MaxTrailingSlashes == 2

RECURSIVE Slashes(_)
Slashes(n) == IF n = 0 THEN <<>> ELSE <<"/">> \o Slashes(n - 1)

\* a base is scheme "://" host path and some trailing '/'
BaseParts ==
    [ scheme : { <<"h", "t", "t", "p">>, <<"h", "t", "t", "p", "s">> },
      host : { <<"e", "x", ".", "c", "o", "m">>, <<"s">> },
      path : { <<>>, <<"/", "d">>, <<"/", "d", "/", "p", ".", "h">> },
      slashes : 0..MaxTrailingSlashes ]

BaseText(b) == b.scheme \o SchemeSep \o b.host \o b.path \o Slashes(b.slashes)

\* absolute urls, absolute paths, relative paths, the empty text
UrlTexts ==
    { HttpPrefix \o <<"x">>, HttpsPrefix \o <<"x", "/", "y">>, HttpPrefix,
      <<"/", "a">>, <<"/", "a", "/", "b">>, <<"/">>, <<"/", "/", "c">>,
      <<"a">>, <<"a", "/", "b">>, <<"?", "q">>, <<"h", "t", "t", "p">>,
      <<"h", "t", "t", "p", ":", "/", "a">>, <<>> }

UrlInputs ==
    { ValString(u) : u \in UrlTexts } \cup { ValHtml(u) : u \in UrlTexts }
    \cup { ValNull, ValJson(JStr(<<"/", "a">>)), ValArray(<<ValString(<<"/", "a">>)>>) }

UrlArgs ==
    { <<>>, <<JNum(1)>>, <<JNull>> }
    \cup { <<JStr(BaseText(b))>> : b \in BaseParts }
    \cup { <<JStr(BaseText(b)), JStr(<<"x">>)>> : b \in BaseParts }

InitAbsoluteUrl ==
    /\ fnCall \in { [fn |-> "absolute_url", args |-> <<v, a>>] :
                      v \in UrlInputs, a \in UrlArgs }
    /\ fnRet = NoReturn
    /\ pc = "call"
    /\ EngineIdle
    /\ ValidatorIdle

absolute_url_call ==
    /\ pc = "call"
    /\ fnCall.fn = "absolute_url"
    /\ fnRet' = Returned(AbsoluteUrlFilter_apply(fnCall.args[1], fnCall.args[2]))
    /\ pc' = "returned"
    /\ UNCHANGED <<fnCall, engineVars, validatorVars>>

NextAbsoluteUrl == absolute_url_call

SpecAbsoluteUrl == InitAbsoluteUrl /\ [][NextAbsoluteUrl]_vars

(***************************************************************************)
(* C21: absolute_url(base) on a text input u.  If u starts with http://    *)
(* or https:// the result is u unchanged, with or without a base           *)
(* argument.  If u starts with '/', the result is the scheme and host of   *)
(* base followed by u.  Otherwise the result is base without trailing '/'  *)
(* followed by '/' and u.  A relative u with no base argument fails with   *)
(* an Extraction error.                                                    *)
(***************************************************************************)
C21_AbsoluteUrl ==
    (pc = "returned" /\ fnCall.args[1].tag \in {"String", "Html"}) =>
        LET u == fnCall.args[1].s
            args == fnCall.args[2]
            r == fnRet.v
            absolute == \/ (Len(u) >= 7 /\ SubSeq(u, 1, 7) = HttpPrefix)
                        \/ (Len(u) >= 8 /\ SubSeq(u, 1, 8) = HttpsPrefix)
        IN  /\ absolute => r = Ok(ValString(u))
            /\ (~absolute /\ args = <<>>) => (~r.ok /\ r.err.type = "Extraction")
            /\ ~absolute =>
                \A b \in BaseParts :
                    (args # <<>> /\ args[1] = JStr(BaseText(b))) =>
                        IF u # <<>> /\ u[1] = "/"
                        THEN r = Ok(ValString(b.scheme \o SchemeSep \o b.host \o u))
                        ELSE r = Ok(ValString(b.scheme \o SchemeSep \o b.host \o b.path
                                                \o <<"/">> \o u))

\* "/a" against "https://ex.com/d/": the path of the base is dropped
C21_Witness ==
    /\ pc = "returned"
    /\ fnCall.args[1] = ValString(<<"/", "a">>)
    /\ fnCall.args[2] = <<JStr(<<"h", "t", "t", "p", "s", ":", "/", "/", "e", "x", ".",
                                "c", "o", "m", "/", "d", "/">>)>>
    /\ fnRet.v = Ok(ValString(<<"h", "t", "t", "p", "s", ":", "/", "/", "e", "x", ".",
                                "c", "o", "m", "/", "a">>))

\* "a/b" against "https://ex.com/d/": joined to the base without its '/'
C21_WitnessRelative ==
    /\ pc = "returned"
    /\ fnCall.args[1] = ValHtml(<<"a", "/", "b">>)
    /\ fnCall.args[2] = <<JStr(<<"h", "t", "t", "p", "s", ":", "/", "/", "e", "x", ".",
                                "c", "o", "m", "/", "d", "/">>)>>
    /\ fnRet.v = Ok(ValString(<<"h", "t", "t", "p", "s", ":", "/", "/", "e", "x", ".",
                                "c", "o", "m", "/", "d", "/", "a", "/", "b">>))


(***************************************************************************)
(* ToIntFilter and ToStringFilter (filter/convert.rs).  An i64 is kept in  *)
(* sign and magnitude, the magnitude as its decimal digits without leading *)
(* zeros, so that the whole 64-bit range is represented.                   *)
(***************************************************************************)
DecimalDigits == <<"0", "1", "2", "3", "4", "5", "6", "7", "8", "9">>

IsDigit(c) == \E i \in 1..10 : DecimalDigits[i] = c

DigitValue(c) == (CHOOSE i \in 1..10 : DecimalDigits[i] = c) - 1

I64(neg, mag) == [neg |-> neg, mag |-> mag]

\* the decimal digits of i64::MAX = 2^63 - 1, and of -(i64::MIN) = 2^63
I64_MAX_MAG ==
    <<"9", "2", "2", "3", "3", "7", "2", "0", "3", "6", "8", "5", "4", "7", "7", "5",
      "8", "0", "7">>
I64_MIN_MAG ==
    <<"9", "2", "2", "3", "3", "7", "2", "0", "3", "6", "8", "5", "4", "7", "7", "5",
      "8", "0", "8">>

\* magnitudes without leading zeros: a <= b
MagLeq(a, b) ==
    \/ Len(a) < Len(b)
    \/ /\ Len(a) = Len(b)
       /\ \/ a = b
          \/ \E i \in 1..Len(a) :
                /\ SubSeq(a, 1, i - 1) = SubSeq(b, 1, i - 1)
                /\ DigitValue(a[i]) < DigitValue(b[i])

\* the digits with their leading zeros dropped; "0" for zero
RECURSIVE StripZeros(_)
StripZeros(digits) ==
    IF Len(digits) > 1 /\ digits[1] = "0" THEN StripZeros(Tail(digits)) ELSE digits

\* <i64 as FromStr>::from_str: an optional sign, then digits only; the
\* accumulated value must stay in the range of i64
i64_from_str(src) ==
    IF src = <<>> THEN Err(<<"cannot parse integer from empty string">>)
    ELSE LET signed == src[1] \in {"+", "-"}
             digits == IF signed THEN Tail(src) ELSE src
             mag == StripZeros(digits)
         IN  IF digits = <<>> \/ \E i \in 1..Len(digits) : ~IsDigit(digits[i])
             THEN Err(<<"invalid digit found in string">>)
             ELSE IF src[1] = "-"
             THEN IF MagLeq(mag, I64_MIN_MAG)
                  THEN Ok(I64(mag # <<"0">>, mag))
                  ELSE Err(<<"number too small to fit in target type">>)
             ELSE IF MagLeq(mag, I64_MAX_MAG)
                  THEN Ok(I64(FALSE, mag))
                  ELSE Err(<<"number too large to fit in target type">>)

\* ToIntFilter::apply
ToIntFilter_apply(inp) ==
    LET str == as_str(inp)
    IN  IF ~str.some
        THEN Err(Extraction(<<"to_int filter requires string input">>))
        ELSE LET num == i64_from_str(str.v)
             IN  IF num.ok THEN Ok(ValJson(JNum(num.val)))
                 ELSE Err(Extraction(<<"Failed to parse int: ">> \o num.err))

\* Display of a number that loses the sign
i64_to_string_unsigned(n) == n.mag

\* Display of the number of a serde_json::Value::Number built from an i64
i64_to_string(n) == IF n.neg THEN <<"-">> \o n.mag ELSE n.mag

\* the text between the quotes of a JSON string: '"' and '\' are escaped
RECURSIVE json_escape(_)
json_escape(text) ==
    IF text = <<>> THEN <<>>
    ELSE (IF text[1] \in {"\"", "\\"} THEN <<"\\", text[1]>> ELSE <<text[1]>>)
         \o json_escape(Tail(text))

\* <serde_json::Value as Display>::fmt: the compact serialisation.  The
\* fields of an object are written in the iteration order of its map.
RECURSIVE Value_to_string(_)
Value_to_string(j) ==
    CASE j.k = "null" -> <<"n", "u", "l", "l">>
      [] j.k = "bool" -> IF j.b THEN <<"t", "r", "u", "e">> ELSE <<"f", "a", "l", "s", "e">>
      [] j.k = "num" -> i64_to_string(j.n)
      [] j.k = "str" -> <<"\"">> \o json_escape(j.s) \o <<"\"">>
      [] j.k = "arr" ->
            LET RECURSIVE JoinItems(_)
                JoinItems(i) ==
                    IF i > Len(j.items) THEN <<>>
                    ELSE (IF i > 1 THEN <<",">> ELSE <<>>)
                         \o Value_to_string(j.items[i]) \o JoinItems(i + 1)
            IN  <<"[">> \o JoinItems(1) \o <<"]">>
      [] j.k = "obj" ->
            LET RECURSIVE JoinFields(_)
                JoinFields(keys) ==
                    IF keys = {} THEN <<>>
                    ELSE LET key == CHOOSE x \in keys : TRUE
                         IN  <<"\"", key, "\"", ":">> \o Value_to_string(j.fields[key])
                             \o (IF keys = {key} THEN <<>> ELSE <<",">>)
                             \o JoinFields(keys \ {key})
            IN  <<"{">> \o JoinFields(DOMAIN j.fields) \o <<"}">>

\* ToStringFilter::apply
ToStringFilter_apply(inp) ==
    CASE inp.tag = "String" -> Ok(ValString(inp.s))
      [] inp.tag = "Json" -> Ok(ValString(Value_to_string(inp.j)))
      [] inp.tag = "Html" -> Ok(ValString(inp.s))
      [] inp.tag = "Array" -> Err(Extraction(<<"Cannot convert array to string">>))
      [] inp.tag = "Null" -> Ok(ValString(<<>>))

\* longest text drawn from IntAlphabet
MaxIntLen == 3

IntAlphabet == {"0", "1", "9", "+", "-", "a", " "}

\* short texts of every shape, and the texts around the ends of the range
IntTexts ==
    SeqsUpTo(IntAlphabet, MaxIntLen)
    \cup { I64_MAX_MAG, I64_MIN_MAG, <<"-">> \o I64_MIN_MAG, <<"-">> \o I64_MAX_MAG,
           <<"+">> \o I64_MAX_MAG, <<"0">> \o I64_MAX_MAG,
           <<"-", "9", "2", "2", "3", "3", "7", "2", "0", "3", "6", "8", "5", "4", "7", "7",
             "5", "8", "0", "9">>,
           <<"1", "0", "0", "0", "0", "0", "0", "0", "0", "0", "0", "0", "0", "0", "0", "0",
             "0", "0", "0", "0">>,
           <<"4", "2", "9", "4", "9", "6", "7", "2", "9", "6">> }

ToIntInputs ==
    { ValString(t) : t \in IntTexts } \cup { ValHtml(t) : t \in IntTexts }
    \cup { ValNull, ValJson(JNum(I64(FALSE, <<"1">>))), ValArray(<<ValString(<<"1">>)>>) }

ToStringInputs ==
    { ValString(<<"a">>), ValHtml(<<"<", "p", ">">>), ValNull, ValArray(<<>>),
      ValJson(JNull), ValJson(JBool(TRUE)), ValJson(JBool(FALSE)),
      ValJson(JStr(<<"a", "\"", "\\">>)),
      ValJson(JArr(<<JNum(I64(TRUE, <<"1">>)), JStr(<<>>), JArr(<<>>)>>)),
      ValJson(JObj(<<>>)), ValJson(JObj([a |-> JNull])) }

InitConvert ==
    /\ fnCall \in { [fn |-> "to_int", args |-> <<v>>] : v \in ToIntInputs }
                  \cup { [fn |-> "to_string", args |-> <<v>>] : v \in ToStringInputs }
    /\ fnRet = NoReturn
    /\ pc = "call"
    /\ EngineIdle
    /\ ValidatorIdle

to_int_call ==
    /\ pc = "call"
    /\ fnCall.fn = "to_int"
    /\ fnRet' = Returned(ToIntFilter_apply(fnCall.args[1]))
    /\ pc' = "returned"
    /\ UNCHANGED <<fnCall, engineVars, validatorVars>>

to_string_call ==
    /\ pc = "call"
    /\ fnCall.fn = "to_string"
    /\ fnRet' = Returned(ToStringFilter_apply(fnCall.args[1]))
    /\ pc' = "returned"
    /\ UNCHANGED <<fnCall, engineVars, validatorVars>>

\* the next filter of the chain, to_string, applied to the value of to_int
to_string_of_to_int ==
    /\ pc = "returned"
    /\ fnCall.fn = "to_int"
    /\ fnRet.v.ok
    /\ fnRet' = Returned(ToStringFilter_apply(fnRet.v.val))
    /\ pc' = "piped"
    /\ UNCHANGED <<fnCall, engineVars, validatorVars>>

NextConvert == to_int_call \/ to_string_call \/ to_string_of_to_int

SpecConvert == InitConvert /\ [][NextConvert]_vars

\* an optional '-', then digits without leading zero; "0" has no sign
CanonicalDecimal(t) ==
    \/ t = <<"0">>
    \/ LET digits == IF t # <<>> /\ t[1] = "-" THEN Tail(t) ELSE t
       IN  /\ digits # <<>>
           /\ digits[1] \in {"1", "2", "3", "4", "5", "6", "7", "8", "9"}
           /\ \A i \in 1..Len(digits) : IsDigit(digits[i])

\* the canonical text t denotes a number of -2^63 .. 2^63 - 1
InI64Range(t) ==
    IF t[1] = "-" THEN MagLeq(Tail(t), I64_MIN_MAG) ELSE MagLeq(t, I64_MAX_MAG)

(***************************************************************************)
(* C22, as claimed: for every valid decimal integer string s, that is, for *)
(* every text s that to_int accepts, to_string(to_int(s)) = s.             *)
(***************************************************************************)
C22_Original ==
    (pc = "piped" /\ fnCall.fn = "to_int") =>
        fnRet.v = Ok(ValString(fnCall.args[1].s))

(***************************************************************************)
(* C22, amended: for every decimal integer string s in canonical form (an  *)
(* optional '-', then digits without leading zeros; no '+', no "-0")       *)
(* within the range of i64, to_int(s) succeeds and                         *)
(* to_string(to_int(s)) = s.                                               *)
(***************************************************************************)
C22_RoundTrip ==
    (/\ fnCall.fn = "to_int"
     /\ fnCall.args[1].tag \in {"String", "Html"}
     /\ CanonicalDecimal(fnCall.args[1].s)
     /\ InI64Range(fnCall.args[1].s)) =>
        /\ pc = "returned" => fnRet.v.ok
        /\ pc = "piped" => fnRet.v = Ok(ValString(fnCall.args[1].s))

\* "-9223372036854775808" (i64::MIN) survives the round trip
C22_Witness ==
    /\ pc = "piped"
    /\ fnCall.args[1] = ValString(<<"-">> \o I64_MIN_MAG)
    /\ fnRet.v = Ok(ValString(<<"-">> \o I64_MIN_MAG))

\* "+09" is accepted by to_int and comes back as "9"
C22_WitnessNormalised ==
    /\ pc = "piped"
    /\ fnCall.args[1] = ValString(<<"+", "0", "9">>)
    /\ fnRet.v = Ok(ValString(<<"9">>))


(***************************************************************************)
(* ExtractEngine::extract_field as one call, for the callers that use it   *)
(* as a function (flow/detail.rs).                                         *)
(***************************************************************************)
\* `for fallback_steps in fallback`: the first accepted value from chain i on
RECURSIVE first_fallback_value(_, _, _, _)
first_fallback_accept(res, fallback, i, inp, ctx) ==
    IF fallback_accepted(res) THEN Some(res.val)
    ELSE first_fallback_value(fallback, i + 1, inp, ctx)

first_fallback_value(fallback, i, inp, ctx) ==
    IF i > Len(fallback) THEN None
    ELSE first_fallback_accept(execute_steps(fallback_chain(fallback, i), inp, ctx),
                               fallback, i, inp, ctx)

\* lines 45-64, 71-87: the value of the fallback loop, else the default or
\* the error of the arm
extract_field_after_fallbacks(ex, prim, fb) ==
    IF fb.some THEN Ok(fb.v)
    ELSE default_or_error(ex.default,
                          IF prim.ok THEN "ok" ELSE "err",
                          IF prim.ok THEN NoError ELSE prim.err)

\* line 40: the match on the result of the primary chain
extract_field_match(ex, prim, inp, ctx) ==
    IF prim.ok /\ ~primary_value_rejected(prim.val, ex.nullable)
    THEN Ok(prim.val)
    ELSE extract_field_after_fallbacks(ex, prim,
            IF ex.fallback.some
            THEN first_fallback_value(ex.fallback.v, 1, inp, ctx)
            ELSE None)

ExtractEngine_extract_field(ex, inp, ctx) ==
    extract_field_match(ex, execute_steps(ex.steps, inp, ctx), inp, ctx)

\* the stepwise extract_field and the one-call form return the same result
ExtractFieldAgrees ==
    pc = "done" => result = ExtractEngine_extract_field(extractor, input, context)

(***************************************************************************)
(* DetailFlowExecutor: extract_string, extract_book_detail,                *)
(* extract_chapters (flow/detail.rs 96-214)                                *)
(***************************************************************************)
\* characters removed by str::trim
WhiteSpace == {" ", "\t", "\n", "\r"}

RECURSIVE trim_start(_)
trim_start(text) ==
    IF text # <<>> /\ text[1] \in WhiteSpace THEN trim_start(Tail(text)) ELSE text

RECURSIVE trim_end(_)
trim_end(text) ==
    IF text # <<>> /\ text[Len(text)] \in WhiteSpace
    THEN trim_end(SubSeq(text, 1, Len(text) - 1))
    ELSE text

\* str::trim
trim(text) == trim_end(trim_start(text))

\* .ok().and_then(|v| v.as_str().map(|s| s.to_string()))
text_of_result(res) == IF res.ok THEN as_str(res.val) ELSE None

\* the text as extracted, without the trimming
trimmed_non_empty_untrimmed(str) ==
    IF str.some /\ str.v # <<>> THEN Some(str.v) ELSE None

\* .map(|s| s.trim().to_string()).filter(|s| !s.is_empty())
trimmed_non_empty(str) ==
    IF str.some /\ trim(str.v) # <<>> THEN Some(trim(str.v)) ELSE None

\* DetailFlowExecutor::extract_string
extract_string(ex, inp, ctx) ==
    trimmed_non_empty(text_of_result(ExtractEngine_extract_field(ex, inp, ctx)))

\* fields.<name>.as_ref().and_then(|f| extract_string(.., &f.extractor, ..))
extract_optional(field, html, ctx) ==
    IF field.some THEN extract_string(field.v.extractor, html, ctx) ELSE None

ChapterItem(title, url) == [title |-> title, url |-> url]

\* `if let (Some(title), Some(url)) = (title, url) { chapters.push(..) }`
chapter_pushed(title, url) ==
    IF title.some /\ url.some THEN <<ChapterItem(title.v, url.v)>> ELSE <<>>

\* the loop of extract_chapters ended by the first item without title or url
RECURSIVE chapters_loop_stop_at_gap(_, _, _, _)
chapters_stop_at_gap(pushed, chapter_rule, items, i, ctx) ==
    IF pushed = <<>> THEN <<>>
    ELSE pushed \o chapters_loop_stop_at_gap(chapter_rule, items, i + 1, ctx)

chapters_loop_stop_at_gap(chapter_rule, items, i, ctx) ==
    IF i > Len(items) THEN <<>>
    ELSE chapters_stop_at_gap(
            chapter_pushed(extract_string(chapter_rule.title.extractor, items[i], ctx),
                           extract_string(chapter_rule.url.extractor, items[i], ctx)),
            chapter_rule, items, i, ctx)

\* `for item in items.iter()` of extract_chapters, from item i on
RECURSIVE chapters_loop(_, _, _, _)
chapters_loop(chapter_rule, items, i, ctx) ==
    IF i > Len(items) THEN <<>>
    ELSE chapter_pushed(extract_string(chapter_rule.title.extractor, items[i], ctx),
                        extract_string(chapter_rule.url.extractor, items[i], ctx))
         \o chapters_loop(chapter_rule, items, i + 1, ctx)

\* lines 195-213: the items of an Array, no chapter for any other value
chapters_of_list(chapter_rule, list_result, ctx) ==
    IF ~list_result.ok THEN list_result
    ELSE IF list_result.val.tag # "Array" THEN Ok(<<>>)
    ELSE Ok(chapters_loop(chapter_rule, list_result.val.items, 1, ctx))

\* DetailFlowExecutor::extract_chapters
extract_chapters(chapter_rule, html, ctx) ==
    chapters_of_list(chapter_rule,
                     ExtractEngine_extract_field(chapter_rule.list.extractor, html, ctx),
                     ctx)

\* lines 117-181: the `?` on title, author and chapters, then the record;
\* the two messages are given in English
book_detail_of(title, author, chapters, fields, html, ctx) ==
    IF ~title.some THEN Err(Extraction(<<"cannot extract title">>))
    ELSE IF ~author.some THEN Err(Extraction(<<"cannot extract author">>))
    ELSE IF ~chapters.ok THEN chapters
    ELSE Ok([title |-> title.v,
             author |-> author.v,
             cover |-> extract_optional(fields.cover, html, ctx),
             intro |-> extract_optional(fields.intro, html, ctx),
             category |-> extract_optional(fields.category, html, ctx),
             status |-> extract_optional(fields.status, html, ctx),
             tags |-> None,
             last_chapter |-> extract_optional(fields.last_chapter, html, ctx),
             update_time |-> None,
             word_count |-> extract_optional(fields.word_count, html, ctx),
             toc_url |-> None,
             chapters |-> chapters.val,
             raw |-> JObj(<<>>)])

\* DetailFlowExecutor::extract_book_detail
extract_book_detail(fields, html, ctx) ==
    book_detail_of(extract_string(fields.title.extractor, html, ctx),
                   extract_string(fields.author.extractor, html, ctx),
                   IF fields.chapters.some
                   THEN extract_chapters(fields.chapters.v, html, ctx)
                   ELSE Ok(<<>>),
                   fields, html, ctx)

(***************************************************************************)
(* Inputs of the book detail extraction.                                   *)
(***************************************************************************)
Extractor(steps, fallback, default, nullable) ==
    [steps |-> steps, fallback |-> fallback, default |-> default, nullable |-> nullable]

Chain(steps) == Extractor(steps, None, None, FALSE)

\* a field of the rule: FieldWithTransform { extractor, .. }
Field(ex) == [extractor |-> ex]

TextT == <<"T">>
PaddedT == <<" ", "t", " ", "x", "\n">>
BlankT == <<" ", "\t">>

\* extractors of a required field: text, padded text, blank text, the page
\* itself, a failure, a number, an array, a context variable, an empty text
\* of a nullable extractor, a fallback chain, an empty default
TitleExtractors ==
    { Chain(<<Const(JStr(TextT))>>),
      Chain(<<Const(JStr(PaddedT))>>),
      Chain(<<Const(JStr(BlankT))>>),
      Chain(<<>>),
      Chain(<<Xpath>>),
      Chain(<<Const(JNum(1))>>),
      Chain(<<Const(JArr(<<JStr(TextT)>>))>>),
      Chain(<<Var("x")>>),
      Extractor(<<Const(JStr(<<>>))>>, None, None, TRUE),
      Extractor(<<Xpath>>, Some(<<<<Const(JStr(PaddedT))>>>>), None, FALSE),
      Extractor(<<Xpath>>, None, Some(JStr(<<>>)), FALSE) }

AuthorExtractors ==
    { Chain(<<Const(JStr(PaddedT))>>), Chain(<<Const(JStr(BlankT))>>),
      Chain(<<Xpath>>), Chain(<<Const(JNull)>>) }

OptionalExtractors ==
    { Chain(<<Const(JStr(PaddedT))>>), Chain(<<Const(JStr(BlankT))>>), Chain(<<Xpath>>) }

OptionalNames == {"cover", "intro", "category", "status", "last_chapter", "word_count"}

\* most optional fields a rule of the pool configures
MaxOptional == 2

OptionalAssignments ==
    { o \in [OptionalNames -> {None} \cup { Some(Field(e)) : e \in OptionalExtractors }] :
        Cardinality({ n \in OptionalNames : o[n].some }) <= MaxOptional }

\* the items of a chapter list: texts, padded and blank texts, non-texts
ChapterValues ==
    { ValString(<<"a">>), ValString(<<" ", "b", " ">>), ValString(<<" ">>),
      ValHtml(<<"<", "a", ">">>), ValNull, ValJson(JNum(1)) }

\* truthy items get " u ", the others are handed on as they are
UrlOfTruthy == Condition(<<>>, <<Const(JStr(<<" ", "u", " ">>))>>, None)

ChapterListExtractors ==
    { Chain(<<>>), Chain(<<Xpath>>), Chain(<<Const(JStr(<<"x">>))>>),
      Chain(<<Const(JArr(<<JStr(<<"c">>), JStr(<<>>), JNum(2), JStr(<<" ", "d">>)>>))>>),
      Extractor(<<>>, None, None, TRUE) }

ChapterTitleExtractors == { Chain(<<>>), Chain(<<Const(JStr(TextT))>>), Chain(<<UrlOfTruthy>>) }

ChapterUrlExtractors == { Chain(<<>>), Chain(<<UrlOfTruthy>>), Chain(<<Xpath>>) }

ChapterListRules ==
    { [list |-> Field(l), title |-> Field(t), url |-> Field(u)] :
        l \in ChapterListExtractors, t \in ChapterTitleExtractors,
        u \in ChapterUrlExtractors }

\* the chapter rules of the book rules: a good list, a failing list
BookChapterRules ==
    { None,
      Some([list |-> Field(Chain(<<Const(JArr(<<JStr(<<"c">>), JStr(<<>>), JNum(2),
                                              JStr(<<" ", "d">>)>>))>>)),
            title |-> Field(Chain(<<>>)), url |-> Field(Chain(<<UrlOfTruthy>>))]),
      Some([list |-> Field(Chain(<<Xpath>>)),
            title |-> Field(Chain(<<>>)), url |-> Field(Chain(<<>>))]) }

BookDetailFields ==
    { [title |-> Field(t), author |-> Field(a), cover |-> o["cover"],
       intro |-> o["intro"], category |-> o["category"], status |-> o["status"],
       last_chapter |-> o["last_chapter"], word_count |-> o["word_count"],
       chapters |-> c] :
        t \in TitleExtractors, a \in AuthorExtractors, o \in OptionalAssignments,
        c \in BookChapterRules }

BookPage == ValHtml(<<" ", "<", "h", "1", ">", "\n">>)

\* the pages handed to extract_chapters: a page of text and lists of items
ChapterPages == {BookPage} \cup { ValArray(a) : a \in SeqsUpTo(ChapterValues, MaxItems) }

InitBookDetail ==
    /\ fnCall \in { [fn |-> "extract_book_detail", args |-> <<f, BookPage, c>>] :
                      f \in BookDetailFields, c \in Contexts }
                  \cup { [fn |-> "extract_chapters", args |-> <<r, h, <<>> >>] :
                           r \in ChapterListRules, h \in ChapterPages }
    /\ fnRet = NoReturn
    /\ pc = "call"
    /\ EngineIdle
    /\ ValidatorIdle

extract_book_detail_call ==
    /\ pc = "call"
    /\ fnCall.fn = "extract_book_detail"
    /\ fnRet' = Returned(extract_book_detail(fnCall.args[1], fnCall.args[2], fnCall.args[3]))
    /\ pc' = "returned"
    /\ UNCHANGED <<fnCall, engineVars, validatorVars>>

extract_chapters_call ==
    /\ pc = "call"
    /\ fnCall.fn = "extract_chapters"
    /\ fnRet' = Returned(extract_chapters(fnCall.args[1], fnCall.args[2], fnCall.args[3]))
    /\ pc' = "returned"
    /\ UNCHANGED <<fnCall, engineVars, validatorVars>>

NextBookDetail == extract_book_detail_call \/ extract_chapters_call

SpecBookDetail == InitBookDetail /\ [][NextBookDetail]_vars

\* the extractor fails, yields a value that is not text, or yields text that
\* is empty after trimming
Unusable(ex, inp, ctx) ==
    LET res == ExtractEngine_extract_field(ex, inp, ctx)
    IN  \/ ~res.ok
        \/ res.val.tag \notin {"String", "Html"}
        \/ \A i \in 1..Len(res.val.s) : res.val.s[i] \in WhiteSpace

\* a text that is not empty and neither starts nor ends with white space
TrimmedNonEmpty(text) ==
    /\ text # <<>>
    /\ text[1] \notin WhiteSpace
    /\ text[Len(text)] \notin WhiteSpace

(***************************************************************************)
(* C23: in the extraction of a book detail, a required field (title,       *)
(* author) whose extractor fails, yields a non-text value, or yields text  *)
(* that is empty after trimming makes extract_book_detail fail; an         *)
(* optional field (cover, intro, category, status, last_chapter,           *)
(* word_count) in the same situation becomes None; and every string placed *)
(* in the result is trimmed and non-empty.                                 *)
(***************************************************************************)
C23_BookDetail ==
    (pc = "returned" /\ fnCall.fn = "extract_book_detail") =>
        LET fields == fnCall.args[1]
            html == fnCall.args[2]
            ctx == fnCall.args[3]
            r == fnRet.v
        IN  /\ (\/ Unusable(fields.title.extractor, html, ctx)
                \/ Unusable(fields.author.extractor, html, ctx)) => ~r.ok
            /\ r.ok =>
                /\ \A n \in OptionalNames :
                    /\ (fields[n].some /\ Unusable(fields[n].v.extractor, html, ctx))
                            => r.val[n] = None
                    /\ r.val[n].some => TrimmedNonEmpty(r.val[n].v)
                /\ TrimmedNonEmpty(r.val.title)
                /\ TrimmedNonEmpty(r.val.author)
                /\ \A n \in {"tags", "update_time", "toc_url"} : r.val[n] = None
                /\ \A i \in 1..Len(r.val.chapters) :
                    /\ TrimmedNonEmpty(r.val.chapters[i].title)
                    /\ TrimmedNonEmpty(r.val.chapters[i].url)

\* a detail with a trimmed title, a cover that became None because its
\* extractor gave blank text, and a trimmed intro
C23_Witness ==
    /\ pc = "returned"
    /\ fnCall.fn = "extract_book_detail"
    /\ fnCall.args[1].title = Field(Chain(<<Const(JStr(PaddedT))>>))
    /\ fnCall.args[1].cover = Some(Field(Chain(<<Const(JStr(BlankT))>>)))
    /\ fnCall.args[1].intro = Some(Field(Chain(<<Const(JStr(PaddedT))>>)))
    /\ fnRet.v.ok
    /\ fnRet.v.val.title = <<"t", " ", "x">>
    /\ fnRet.v.val.cover = None
    /\ fnRet.v.val.intro = Some(<<"t", " ", "x">>)
    /\ fnRet.v.val.chapters # <<>>

\* a blank author makes the extraction fail
C23_WitnessRequired ==
    /\ pc = "returned"
    /\ fnCall.fn = "extract_book_detail"
    /\ fnCall.args[1].title = Field(Chain(<<Const(JStr(TextT))>>))
    /\ fnCall.args[1].author = Field(Chain(<<Const(JStr(BlankT))>>))
    /\ ~fnRet.v.ok

\* the list items on which both leaf extractors yield text that is not empty
\* after trimming
LeafText(ex, item, ctx) == extract_string(ex, item, ctx)

GoodItems(chapter_rule, items, ctx) ==
    { i \in 1..Len(items) :
        /\ LeafText(chapter_rule.title.extractor, items[i], ctx).some
        /\ LeafText(chapter_rule.url.extractor, items[i], ctx).some }

(***************************************************************************)
(* C24: extract_chapters returns, in the order of the list extractor's     *)
(* array, exactly one ChapterItem per list item on which both the title    *)
(* and url leaf extractors yield non-empty text (text left after the       *)
(* trimming of extract_string); items missing either leaf are skipped and  *)
(* never abort or reorder the result.                                      *)
(***************************************************************************)
C24_Chapters ==
    (pc = "returned" /\ fnCall.fn = "extract_chapters") =>
        LET chapter_rule == fnCall.args[1]
            ctx == fnCall.args[3]
            list == ExtractEngine_extract_field(chapter_rule.list.extractor,
                                                fnCall.args[2], ctx)
        IN  (list.ok /\ list.val.tag = "Array") =>
                LET items == list.val.items
                    good == GoodItems(chapter_rule, items, ctx)
                    chapters == fnRet.v.val
                IN  /\ fnRet.v.ok
                    /\ Len(chapters) = Cardinality(good)
                    /\ \E at \in [1..Len(chapters) -> good] :
                        /\ \A k \in 1..Len(chapters) : \A m \in 1..Len(chapters) :
                                k < m => at[k] < at[m]
                        /\ \A k \in 1..Len(chapters) :
                            /\ chapters[k].title
                                  = LeafText(chapter_rule.title.extractor, items[at[k]], ctx).v
                            /\ chapters[k].url
                                  = LeafText(chapter_rule.url.extractor, items[at[k]], ctx).v

\* three items, the second without a title: the first and the third are
\* returned in their order
C24_Witness ==
    /\ pc = "returned"
    /\ fnCall.fn = "extract_chapters"
    /\ fnCall.args[1] = [list |-> Field(Chain(<<>>)), title |-> Field(Chain(<<>>)),
                         url |-> Field(Chain(<<UrlOfTruthy>>))]
    /\ fnCall.args[2] = ValArray(<<ValString(<<" ", "b", " ">>), ValJson(JNum(1)),
                                   ValString(<<"a">>)>>)
    /\ fnRet.v = Ok(<<ChapterItem(<<"b">>, <<"u">>), ChapterItem(<<"a">>, <<"u">>)>>)


(***************************************************************************)
(* DetailFlowExecutor::execute (flow/detail.rs 222-258).  fnCall holds the *)
(* flow and the request, context the variable bag, input the page once it  *)
(* is wrapped, calls the requests handed to the HTTP client, trace the     *)
(* stages entered, result the value returned.                              *)
(***************************************************************************)
\* Context::set: the variable is added or overwritten
ContextSet(ctx, name, value) ==
    [n \in (DOMAIN ctx) \cup {name} |-> IF n = name THEN value ELSE ctx[n]]

\* a template is its literal texts and its {{ var }} placeholders
Lit(text) == [part |-> "lit", text |-> text]
Placeholder(name) == [part |-> "var", name |-> name]

\* the text a context value is rendered as
RenderedValue(j) == IF j.k = "str" THEN j.s ELSE Value_to_string(j)

\* TemplateRenderer::render: every placeholder resolved against the context
RECURSIVE Template_render(_, _)
Template_render_rest(first, rest) ==
    IF rest.ok THEN Ok(first \o rest.val) ELSE rest

Template_render(template, ctx) ==
    IF template = <<>> THEN Ok(<<>>)
    ELSE IF Head(template).part = "lit"
    THEN Template_render_rest(Head(template).text, Template_render(Tail(template), ctx))
    ELSE IF Head(template).name \in DOMAIN ctx
    THEN Template_render_rest(RenderedValue(ctx[Head(template).name]),
                              Template_render(Tail(template), ctx))
    ELSE Err([type |-> "TemplateRender", msg |-> <<"undefined variable: ", Head(template).name>>])

HttpRequestError(msg) == [type |-> "HttpRequest", msg |-> msg]

\* the variable bag handed to the template: the bag as the caller left it
seeded_context_unseeded(ctx, request) == ctx

\* line 224: context.set("detail_url", json!(&input.url))
seeded_context(ctx, request) == ContextSet(ctx, "detail_url", JStr(request.url))

\* lines 240-257: the extraction for the media kind of the flow
extract_for_kind(fields, html, ctx) ==
    CASE fields.kind = "Book" -> extract_book_detail(fields.fields, html, ctx)
      [] fields.kind = "Video" -> Ok(JObj([type |-> JStr(<<"v", "i", "d", "e", "o">>)]))
      [] fields.kind = "Audio" -> Ok(JObj([type |-> JStr(<<"a", "u", "d", "i", "o">>)]))
      [] fields.kind = "Manga" -> Ok(JObj([type |-> JStr(<<"m", "a", "n", "g", "a">>)]))

Stage(name) == [stage |-> name]

FlowOf == fnCall.args[1]
RequestOf == fnCall.args[2]

BookKind(fields) == [kind |-> "Book", fields |-> fields]

PlainBook(title) ==
    [title |-> Field(Chain(title)), author |-> Field(Chain(<<Const(JStr(TextT))>>)),
     cover |-> None, intro |-> None, category |-> None, status |-> None,
     last_chapter |-> None, word_count |-> None, chapters |-> None]

\* the title is the page, a constant, or an extractor that fails
DetailFieldsPool ==
    { BookKind(PlainBook(<<>>)), BookKind(PlainBook(<<Const(JStr(PaddedT))>>)),
      BookKind(PlainBook(<<Xpath>>)),
      [kind |-> "Video"], [kind |-> "Audio"], [kind |-> "Manga"] }

SiteT == <<"h", "t", "t", "p", "s", ":", "/", "/", "s", "/", "b", "/">>

UrlTemplates ==
    { <<Lit(SiteT), Placeholder("id")>>, <<Placeholder("detail_url")>>,
      <<Lit(SiteT)>>, <<Placeholder("detail_url"), Lit(<<"?">>), Placeholder("x")>> }

DetailFlows == [url : UrlTemplates, fields : DetailFieldsPool]

DetailRequests == { [url |-> SiteT \o <<"1">>], [url |-> <<>>] }

DetailContexts ==
    { <<>>, [id |-> JStr(<<"7">>)], [detail_url |-> JStr(<<"o", "l", "d">>), x |-> JNum(I64(FALSE, <<"2">>))] }

\* the bodies a server may answer with
PageBodies == { <<"<", "h", "1", ">">>, <<" ">> }

InitDetailFlow ==
    /\ fnCall \in { [fn |-> "execute", args |-> <<f, r>>] :
                      f \in DetailFlows, r \in DetailRequests }
    /\ fnRet = NoReturn
    /\ context \in DetailContexts
    /\ pc = "seed"
    /\ extractor = NoExtractor
    /\ input = ValNull
    /\ step = NoStep
    /\ arm = "none"
    /\ primErr = NoError
    /\ fbIdx = 0
    /\ chain = <<>>
    /\ result = NoResult
    /\ calls = <<>>
    /\ trace = <<>>
    /\ defaultReads = 0
    /\ ValidatorIdle

\* line 224
execute_seed ==
    /\ pc = "seed"
    /\ context' = seeded_context(context, RequestOf)
    /\ trace' = Append(trace, Stage("seed"))
    /\ pc' = "render"
    /\ UNCHANGED <<pureVars, validatorVars, extractor, input, step, arm, primErr, fbIdx,
                   chain, result, calls, defaultReads>>

\* line 227: let url = self.flow.url.render(context)?
execute_render ==
    /\ pc = "render"
    /\ LET url == Template_render(FlowOf.url, context)
       IN  /\ trace' = Append(trace, Stage("render"))
           /\ IF url.ok
              THEN /\ chain' = url.val
                   /\ pc' = "get"
                   /\ UNCHANGED result
              ELSE /\ result' = url
                   /\ pc' = "done"
                   /\ UNCHANGED chain
    /\ UNCHANGED <<pureVars, validatorVars, extractor, input, context, step, arm, primErr,
                   fbIdx, calls, defaultReads>>

\* line 230: let response = self.http_client.get(&url).await?; the client
\* answers or fails
execute_get ==
    /\ pc = "get"
    /\ \E answered \in BOOLEAN :
        /\ calls' = Append(calls, [get |-> chain, answered |-> answered])
        /\ trace' = Append(trace, Stage("get"))
        /\ IF answered
           THEN /\ pc' = "text"
                /\ UNCHANGED result
           ELSE /\ result' = Err(HttpRequestError(<<"request failed">>))
                /\ pc' = "done"
    /\ UNCHANGED <<pureVars, validatorVars, extractor, input, context, step, arm, primErr,
                   fbIdx, chain, defaultReads>>

\* lines 231-237: the body is read, which may fail, and wrapped as Html
execute_text ==
    /\ pc = "text"
    /\ \/ \E body \in PageBodies :
            /\ input' = ValHtml(body)
            /\ trace' = Append(trace, Stage("wrap"))
            /\ pc' = "extract"
            /\ UNCHANGED result
       \/ /\ result' = Err(HttpRequestError(<<"reading the response failed">>))
          /\ pc' = "done"
          /\ UNCHANGED <<input, trace>>
    /\ UNCHANGED <<pureVars, validatorVars, extractor, context, step, arm, primErr,
                   fbIdx, chain, calls, defaultReads>>

\* lines 240-257
execute_extract ==
    /\ pc = "extract"
    /\ trace' = Append(trace, Stage("extract"))
    /\ result' = extract_for_kind(FlowOf.fields, input, context)
    /\ pc' = "done"
    /\ UNCHANGED <<pureVars, validatorVars, extractor, input, context, step, arm, primErr,
                   fbIdx, chain, calls, defaultReads>>

NextDetailFlow ==
    \/ execute_seed
    \/ execute_render
    \/ execute_get
    \/ execute_text
    \/ execute_extract

SpecDetailFlow == InitDetailFlow /\ [][NextDetailFlow]_vars

StageOrder == <<"seed", "render", "get", "wrap", "extract">>

StagesEntered == [i \in 1..Len(trace) |-> trace[i].stage]

\* the url the template gives with detail_url set to the url of the request
RECURSIVE ExpectedUrl(_, _)
ExpectedUrl(template, ctx) ==
    IF template = <<>> THEN <<>>
    ELSE (IF Head(template).part = "lit" THEN Head(template).text
          ELSE IF Head(template).name = "detail_url" THEN RequestOf.url
          ELSE RenderedValue(ctx[Head(template).name]))
         \o ExpectedUrl(Tail(template), ctx)

\* a placeholder of the template names no variable of the seeded context
RenderFails ==
    \E i \in 1..Len(FlowOf.url) :
        /\ FlowOf.url[i].part = "var"
        /\ FlowOf.url[i].name \notin (DOMAIN context) \cup {"detail_url"}

(***************************************************************************)
(* C25: the detail flow performs its stages in the fixed order seed        *)
(* detail_url, render the URL template, HTTP GET, wrap the body as Html,   *)
(* extract fields.  A template rendering failure means no HTTP request is  *)
(* issued; an HTTP or body-read failure means no extraction is attempted;  *)
(* in each case the error is returned with no partial result.              *)
(***************************************************************************)
C25_StageOrder ==
    /\ \E n \in 0..Len(StageOrder) : StagesEntered = SubSeq(StageOrder, 1, n)
    /\ Len(calls) <= 1
    /\ (Len(trace) >= 2 /\ RenderFails) =>
            /\ calls = <<>>
            /\ pc = "done"
            /\ ~result.ok
            /\ result.err.type = "TemplateRender"
            /\ input = ValNull
    /\ (Len(trace) >= 2 /\ ~RenderFails /\ pc = "done") =>
            /\ Len(calls) = 1
            /\ calls[1].get = ExpectedUrl(FlowOf.url, context)
    /\ (pc = "done" /\ Len(trace) \in {3, 4} /\ StagesEntered[Len(trace)] # "extract") =>
            /\ ~result.ok
            /\ result.err.type = "HttpRequest"
    /\ (calls # <<>> /\ ~calls[1].answered) => (input = ValNull /\ Len(trace) = 3)
    /\ (pc = "done" /\ result.ok) => StagesEntered = StageOrder
    /\ pc # "done" => result = NoResult

\* a book returned after the five stages, the title taken from the page
C25_Witness ==
    /\ pc = "done"
    /\ StagesEntered = StageOrder
    /\ FlowOf.url = <<Placeholder("detail_url")>>
    /\ FlowOf.fields = BookKind(PlainBook(<<>>))
    /\ calls = <<[get |-> SiteT \o <<"1">>, answered |-> TRUE]>>
    /\ result.ok
    /\ result.val.title = <<"<", "h", "1", ">">>

\* the template names the undefined variable id: no request is made
C25_WitnessRender ==
    /\ pc = "done"
    /\ FlowOf.url = <<Lit(SiteT), Placeholder("id")>>
    /\ StagesEntered = <<"seed", "render">>
    /\ calls = <<>>
    /\ ~result.ok

\* the page is blank: the extraction fails and no detail is returned
C25_WitnessExtract ==
    /\ pc = "done"
    /\ StagesEntered = StageOrder
    /\ input = ValHtml(<<" ">>)
    /\ FlowOf.fields = BookKind(PlainBook(<<>>))
    /\ ~result.ok


(***************************************************************************)
(* SubstringFilter (filter/string.rs 186-206).  i64 and usize are 64-bit   *)
(* words, kept as four 16-bit limbs, the most significant first; the cast  *)
(* `as usize` of an i64 keeps the bits.                                    *)
(***************************************************************************)
LimbBase == 65536

\* the word of a small integer, in two's complement
Word(x) ==
    IF x >= 0 THEN <<0, 0, 0, x>>
    ELSE <<LimbBase - 1, LimbBase - 1, LimbBase - 1, LimbBase + x>>

\* a + b on usize: the wrapped sum and whether it overflowed
RECURSIVE add_limbs(_, _, _, _)
add_limbs(a, b, i, carry) ==
    IF i = 0 THEN [word |-> <<>>, overflow |-> carry = 1]
    ELSE LET sum == a[i] + b[i] + carry
             rest == add_limbs(a, b, i - 1, sum \div LimbBase)
         IN  [word |-> Append(rest.word, sum % LimbBase), overflow |-> rest.overflow]

usize_add(a, b) == add_limbs(a, b, 4, 0)

\* a < b on usize
usize_less(a, b) ==
    \E i \in 1..4 : a[i] < b[i] /\ \A j \in 1..(i - 1) : a[j] = b[j]

\* usize::min
usize_min(a, b) == IF usize_less(b, a) THEN b ELSE a

\* an index that is at most the length of a text of the pool
IndexOf(w) == w[4]

\* serde_json::Value::as_i64
Value_as_i64(j) == IF j.k = "num" THEN Some(Word(j.n)) ELSE None

\* args.first().and_then(|v| v.as_i64()).unwrap_or(0) as usize
substring_start(args) ==
    IF args # <<>> /\ Value_as_i64(args[1]).some THEN Value_as_i64(args[1]).v ELSE Word(0)

\* args.get(1).and_then(|v| v.as_i64()).map(|l| l as usize)
substring_len(args) == IF Len(args) >= 2 THEN Value_as_i64(args[2]) ELSE None

Panicked(msg) == [ok |-> FALSE, panic |-> msg]

\* chars[from..end]: the slice panics when from > end
chars_slice(chars, from, end) ==
    IF usize_less(end, from)
    THEN Panicked(<<"slice index starts at ", IndexOf(from), " but ends at ", IndexOf(end)>>)
    ELSE Ok(ValString(SubSeq(chars, IndexOf(from) + 1, IndexOf(end))))

\* (start + l).min(chars.len()): the sum panics on overflow in a build with
\* overflow checks and wraps in a build without
substring_end(sum, n, overflow_checks) ==
    IF sum.overflow /\ overflow_checks
    THEN Panicked(<<"attempt to add with overflow">>)
    ELSE Ok(usize_min(sum.word, n))

substring_of(chars, start, len, overflow_checks) ==
    IF len.some
    THEN IF substring_end(usize_add(start, len.v), Word(Len(chars)), overflow_checks).ok
         THEN chars_slice(chars, usize_min(start, Word(Len(chars))),
                          substring_end(usize_add(start, len.v), Word(Len(chars)),
                                        overflow_checks).val)
         ELSE substring_end(usize_add(start, len.v), Word(Len(chars)), overflow_checks)
    ELSE chars_slice(chars, usize_min(start, Word(Len(chars))), Word(Len(chars)))

\* SubstringFilter::apply
SubstringFilter_apply(inp, args, overflow_checks) ==
    IF ~as_str(inp).some
    THEN Err(Extraction(<<"substring filter requires string input">>))
    ELSE substring_of(as_str(inp).v, substring_start(args), substring_len(args),
                      overflow_checks)

\* largest start and length of the pool; the smallest are negative
MaxIndex == 4

SubstringArgValues ==
    { JNum(x) : x \in (-2)..MaxIndex } \cup { JNull, JStr(<<"1">>) }

SubstringInputs ==
    { ValString(<<>>), ValString(<<"a">>), ValString(<<"a", "b", "c">>),
      ValHtml(<<"<", "b", ">">>), ValNull, ValJson(JStr(<<"a">>)) }

InitSubstring ==
    /\ fnCall \in { [fn |-> "substring", args |-> <<v, a, checks>>] :
                      v \in SubstringInputs, a \in SeqsUpTo(SubstringArgValues, 2),
                      checks \in BOOLEAN }
    /\ fnRet = NoReturn
    /\ pc = "call"
    /\ EngineIdle
    /\ ValidatorIdle

\* the call returns a Result, or the thread panics
substring_call ==
    /\ pc = "call"
    /\ fnCall.fn = "substring"
    /\ LET res == SubstringFilter_apply(fnCall.args[1], fnCall.args[2], fnCall.args[3])
       IN  IF "panic" \in DOMAIN res
           THEN /\ pc' = "panicked"
                /\ UNCHANGED fnRet
           ELSE /\ pc' = "returned"
                /\ fnRet' = Returned(res)
    /\ UNCHANGED <<fnCall, engineVars, validatorVars>>

NextSubstring == substring_call

SpecSubstring == InitSubstring /\ [][NextSubstring]_vars

\* the integer an argument stands for: the number, 0 for a first argument
\* that is no number
ArgInt(j) == IF j.k = "num" THEN j.n ELSE 0

Min(a, b) == IF a <= b THEN a ELSE b

(***************************************************************************)
(* C26: substring(start, length?) never panics or fails on a text input,   *)
(* for any integer arguments, negative values, values beyond the end of    *)
(* the text and values whose sum overflows included; it returns the        *)
(* characters at positions [min(start, n), min(start + length, n)) of the  *)
(* n-character input, or from min(start, n) to the end when length is      *)
(* omitted.                                                                *)
(***************************************************************************)
C26_Substring ==
    (pc # "call" /\ fnCall.args[1].tag \in {"String", "Html"}) =>
        /\ pc = "returned"
        /\ fnRet.v.ok

\* for arguments that are not negative the claimed characters are returned
C26_NonNegative ==
    (/\ pc # "call"
     /\ fnCall.args[1].tag \in {"String", "Html"}
     /\ \A i \in 1..Len(fnCall.args[2]) :
            fnCall.args[2][i].k = "num" => fnCall.args[2][i].n >= 0) =>
        LET chars == fnCall.args[1].s
            n == Len(chars)
            args == fnCall.args[2]
            start == IF args = <<>> THEN 0 ELSE ArgInt(args[1])
            end == IF Len(args) >= 2 /\ args[2].k = "num"
                   THEN Min(start + args[2].n, n) ELSE n
        IN  /\ pc = "returned"
            /\ fnRet.v = Ok(ValString(SubSeq(chars, Min(start, n) + 1, end)))

\* "abc" with start 1 and length 4: the text from position 1 to the end
C26_WitnessClamped ==
    /\ pc = "returned"
    /\ fnCall.args[1] = ValString(<<"a", "b", "c">>)
    /\ fnCall.args[2] = <<JNum(1), JNum(4)>>
    /\ fnRet.v = Ok(ValString(<<"b", "c">>))

\* "abc" with start 2 and length -1: the thread panics
C26_WitnessPanic ==
    /\ pc = "panicked"
    /\ fnCall.args[1] = ValString(<<"a", "b", "c">>)
    /\ fnCall.args[2] = <<JNum(2), JNum(-1)>>
    /\ ~fnCall.args[3]


(***************************************************************************)
(* PipelineExt::required_external_variables (schema/pipeline/mod.rs        *)
(* 207-228).  A step is what the two methods of StepTrait the function     *)
(* reads return for it: required_variables() and output_variable().        *)
(***************************************************************************)
PipelineStep(required, output) == [required |-> required, output |-> output]

\* text.split(sep).next(): the text before the first sep
split_first(text, sep) ==
    IF find(text, <<sep>>).some THEN SliceTo(text, find(text, <<sep>>).v) ELSE text

\* lines 214-215
root_var(var) == split_first(split_first(var, "."), "[")

\* lines 213-219: the roots of the variables of one step that are not defined
required_of_step(stp, defined) ==
    { root_var(var) : var \in stp.required } \ defined

\* lines 222-224
defined_after(stp, defined) ==
    IF stp.output.some THEN defined \cup {stp.output.v} ELSE defined

\* the loop with the output of a step defined before its variables are read
RECURSIVE required_loop_output_first(_, _, _, _)
required_loop_output_first(pipeline, i, required, defined) ==
    IF i > Len(pipeline) THEN required
    ELSE required_loop_output_first(
            pipeline, i + 1,
            required \cup required_of_step(pipeline[i], defined_after(pipeline[i], defined)),
            defined_after(pipeline[i], defined))

\* `for step in self.iter()`, from step i on
RECURSIVE required_loop(_, _, _, _)
required_loop(pipeline, i, required, defined) ==
    IF i > Len(pipeline) THEN required
    ELSE required_loop(pipeline, i + 1,
                       required \cup required_of_step(pipeline[i], defined),
                       defined_after(pipeline[i], defined))

required_external_variables(pipeline) == required_loop(pipeline, 1, {}, {})

\* longest pipeline of the pool
MaxPipelineLen == 2

VarPaths ==
    { <<"a">>, <<"a", ".", "b">>, <<"b", "[", "0", "]", ".", "c">>, <<"c", "[", "1", "]">> }

OutputNames == { <<"a">>, <<"b">> }

PipelineSteps ==
    { PipelineStep(req, out) :
        req \in { r \in SUBSET VarPaths : Cardinality(r) <= 2 },
        out \in {None} \cup { Some(o) : o \in OutputNames } }

InitRequired ==
    /\ fnCall \in { [fn |-> "required_external_variables", args |-> <<p>>] :
                      p \in SeqsUpTo(PipelineSteps, MaxPipelineLen) }
    /\ fnRet = NoReturn
    /\ pc = "call"
    /\ EngineIdle
    /\ ValidatorIdle

required_external_variables_call ==
    /\ pc = "call"
    /\ fnCall.fn = "required_external_variables"
    /\ fnRet' = Returned(required_external_variables(fnCall.args[1]))
    /\ pc' = "returned"
    /\ UNCHANGED <<fnCall, engineVars, validatorVars>>

NextRequired == required_external_variables_call

SpecRequired == InitRequired /\ [][NextRequired]_vars

\* the path cut at its first '.' or '['
RootName(path) ==
    LET cuts == { i \in 1..Len(path) : path[i] \in {".", "["} }
    IN  IF cuts = {} THEN path
        ELSE SubSeq(path, 1, (CHOOSE i \in cuts : \A j \in cuts : i <= j) - 1)

C27_WitnessDefined ==
    /\ pc = "returned"
    /\ fnCall.args[1] = <<PipelineStep({}, Some(<<"a">>)),
                          PipelineStep({<<"a", ".", "b">>}, None)>>
    /\ fnRet.v = {}


(***************************************************************************)
(* Rules whose components A, B, C, D form graphs with and without cycles:  *)
(* diamonds, a component called twice, calls of the undefined U.           *)
(***************************************************************************)
DagPipelines ==
    { <<>>, <<Call("B"), Call("C")>>, <<Call("D")>>, <<Call("B"), Call("B")>>,
      <<Call("U")>>, <<Call("A")>> }

DagTables ==
    {None} \cup
    { Some(t) : t \in UNION { [names -> DagPipelines] :
                              names \in SUBSET {"A", "B", "C", "D"} } }

DagRules ==
    [ components : DagTables,
      scripting : {None},
      login : {None},
      list : {None},
      detail : { <<Call("A")>> },
      search : { <<>> } ]

InitDag ==
    /\ rule \in DagRules
    /\ keyOrder \in Orders(defined_components(rule))
    /\ errors = <<>>
    /\ verdict = NoVerdict
    /\ walk = NoWalk
    /\ pc = "cycles"
    /\ EngineIdle
    /\ PureIdle

SpecDag == InitDag /\ [][NextValidate]_vars

\* the errors of the verdict: one error, or the errors of MultipleErrors
CircularReported ==
    \E i \in 1..Len(errors) : errors[i].type = "CircularReference"

(***************************************************************************)
(* C28: no false cycle reports.  If the component-call graph of a rule is  *)
(* acyclic, validate reports no CircularReference; this covers diamonds    *)
(* (A calls B and C, both call D), a component called twice by another,    *)
(* and calls of an undefined component.  It is shown for the graph of the  *)
(* top-level calls, which is acyclic whenever the whole graph is.          *)
(***************************************************************************)
C28_NoFalseCycle ==
    ~HasCycle(TopCallEdges(rule)) =>
        /\ ~CircularReported
        /\ (pc = "validated" /\ ~verdict.ok) =>
              /\ verdict.err.type # "CircularReference"
              /\ (verdict.err.type = "MultipleErrors") =>
                    \A i \in 1..Len(verdict.err.errors) :
                        verdict.err.errors[i].type # "CircularReference"

\* the diamond A -> B, A -> C, B -> D, C -> D is accepted
C28_Witness ==
    /\ pc = "validated"
    /\ rule.components = Some([A |-> <<Call("B"), Call("C")>>, B |-> <<Call("D")>>,
                               C |-> <<Call("D")>>, D |-> <<>>])
    /\ verdict.ok

\* B called twice by A and U undefined: the only error is the undefined U
C28_WitnessUndefined ==
    /\ pc = "validated"
    /\ rule.components = Some([A |-> <<Call("B"), Call("B")>>, B |-> <<Call("U")>>])
    /\ ~verdict.ok
    /\ verdict.err.type = "UndefinedComponent"


(***************************************************************************)
(* validate_component_cycles and detect_cycle call by call.  walk.k is the *)
(* position of the `for component_name in components.keys()` loop,         *)
(* walk.stack the detect_cycle calls in progress (component_name and the   *)
(* position i of `for step in &component.pipeline`), walk.visited and      *)
(* walk.path the two collections shared by the calls, walk.ret the value   *)
(* a call has just returned, walk.ncalls the number of calls made.         *)
(***************************************************************************)
\* most detect_cycle calls followed in one validate
MaxCalls == 40

Frame(name, i) == [name |-> name, i |-> i]

\* the call that recurses whether or not the component was visited
detect_cycle_enter_unchecked(w, component_name) ==
    [w EXCEPT !.visited = @ \cup {component_name},
              !.path = Append(@, component_name),
              !.stack = Append(@, Frame(component_name, 1)),
              !.ncalls = @ + 1]

\* entry of detect_cycle: `return true` on a visited component, else the
\* component is inserted, pushed and its pipeline walked from the first step
detect_cycle_enter(w, component_name) ==
    IF component_name \in w.visited
    THEN [w EXCEPT !.path = Append(@, component_name),
                   !.ret = "true",
                   !.ncalls = @ + 1]
    ELSE [w EXCEPT !.visited = @ \cup {component_name},
                   !.path = Append(@, component_name),
                   !.stack = Append(@, Frame(component_name, 1)),
                   !.ncalls = @ + 1]

\* `components.get(component_name)`: the pipeline walked, none when undefined
walked_pipeline(components, component_name) ==
    IF component_name \in DOMAIN components THEN components[component_name]
    ELSE <<>>

\* end of detect_cycle: path.pop(), visited.remove(component_name), false
detect_cycle_leave(w, top) ==
    [w EXCEPT !.path = SubSeq(@, 1, Len(@) - 1),
              !.visited = @ \ {top.name},
              !.stack = SubSeq(@, 1, Len(@) - 1),
              !.ret = IF Len(w.stack) = 1 THEN "false" ELSE "none"]

\* the loop of validate_component_cycles calls detect_cycle on the next key
\* with a new visited set and a new path
validate_component_cycles_call ==
    /\ pc = "cycles"
    /\ walk.k >= 1
    /\ walk.k <= Len(keyOrder)
    /\ walk.stack = <<>>
    /\ walk.ret = "none"
    /\ walk.ncalls < MaxCalls
    /\ walk' = detect_cycle_enter([walk EXCEPT !.visited = {}, !.path = <<>>],
                                  keyOrder[walk.k])
    /\ UNCHANGED <<pc, rule, keyOrder, errors, verdict, engineVars, pureVars>>

\* one iteration of `for step in &component.pipeline` of the innermost
\* call: a Call step calls detect_cycle, any other step is passed over;
\* after the last step the call returns false
detect_cycle_step ==
    /\ pc = "cycles"
    /\ walk.stack # <<>>
    /\ walk.ret = "none"
    /\ LET n == Len(walk.stack)
           top == walk.stack[n]
           pipeline == walked_pipeline(rule.components.v, top.name)
           advanced == [walk EXCEPT !.stack[n].i = @ + 1]
       IN  IF top.i > Len(pipeline)
           THEN walk' = detect_cycle_leave(walk, top)
           ELSE IF pipeline[top.i].type = "call"
                THEN /\ walk.ncalls < MaxCalls
                     /\ walk' = detect_cycle_enter(advanced,
                                                   pipeline[top.i].component)
                ELSE walk' = advanced
    /\ UNCHANGED <<pc, rule, keyOrder, errors, verdict, engineVars, pureVars>>

\* `&& self.detect_cycle(..) { return true; }`: the caller returns true too
detect_cycle_return_true ==
    /\ pc = "cycles"
    /\ walk.stack # <<>>
    /\ walk.ret = "true"
    /\ walk' = [walk EXCEPT !.stack = SubSeq(@, 1, Len(@) - 1)]
    /\ UNCHANGED <<pc, rule, keyOrder, errors, verdict, engineVars, pureVars>>

\* the outermost call has returned: a true pushes CircularReference
validate_component_cycles_returned ==
    /\ pc = "cycles"
    /\ walk.stack = <<>>
    /\ walk.ret # "none"
    /\ errors' = IF walk.ret = "true"
                 THEN Append(errors, CircularReference(Join(walk.path)))
                 ELSE errors
    /\ walk' = [walk EXCEPT !.k = @ + 1, !.ret = "none"]
    /\ UNCHANGED <<pc, rule, keyOrder, verdict, engineVars, pureVars>>

\* the loop over the keys is over, or there are no components
validate_component_cycles_done ==
    /\ pc = "cycles"
    /\ walk.k > Len(keyOrder)
    /\ walk.stack = <<>>
    /\ walk.ret = "none"
    /\ pc' = "flows"
    /\ UNCHANGED <<rule, keyOrder, errors, verdict, walk, engineVars, pureVars>>

InitWalk ==
    /\ rule \in CycleRules
    /\ keyOrder \in Orders(defined_components(rule))
    /\ errors = <<>>
    /\ verdict = NoVerdict
    /\ walk = [NoWalk EXCEPT !.k = 1]
    /\ pc = "cycles"
    /\ EngineIdle
    /\ PureIdle

NextWalk ==
    \/ validate_component_cycles_call
    \/ detect_cycle_step
    \/ detect_cycle_return_true
    \/ validate_component_cycles_returned
    \/ validate_component_cycles_done
    \/ validate_all_flows
    \/ validate_all_components
    \/ validate_all_result

SpecWalk == InitWalk /\ [][NextWalk]_vars

\* validate_all is sequential code: a step that can be taken is taken
FairWalk == SpecWalk /\ WF_vars(NextWalk)

\* the errors collected call by call are those of validate_component_cycles
WalkAgrees ==
    pc = "flows" =>
        errors = IF rule.components.some
                 THEN validate_component_cycles(rule.components.v, keyOrder)
                 ELSE <<>>

(***************************************************************************)
(* C29: validate terminates on every finite rule: whatever the shape of    *)
(* the component-call graph (cycles, diamonds, calls of undefined          *)
(* components), the result is returned after finitely many detect_cycle    *)
(* calls; here fewer than MaxCalls, so that no call is ever held back.     *)
(***************************************************************************)
C29_Terminates ==
    /\ <>(pc = "validated" /\ verdict # NoVerdict)
    /\ [](walk.ncalls < MaxCalls)

\* a rule with the cycle A -> B -> C -> A has been validated after more
\* detect_cycle calls than it has components
C29_Witness ==
    /\ pc = "validated"
    /\ rule.components = Some([A |-> <<Call("B"), Call("C")>>,
                               B |-> <<Call("C"), Call("A")>>,
                               C |-> <<Call("A")>>])
    /\ walk.ncalls > 3
    /\ ~verdict.ok

(***************************************************************************)
(* C30: for a non-nullable extractor, every successful result of           *)
(* extract_field produced by the primary chain or by a fallback chain      *)
(* (that is, without reading the default) is non-empty; a successful empty *)
(* result of a non-nullable extractor is the value built from the default. *)
(***************************************************************************)
C30_NonEmpty ==
    (pc = "done" /\ result.ok /\ ~extractor.nullable) =>
        /\ defaultReads = 0 => ~is_empty(result.val)
        /\ is_empty(result.val) =>
              /\ defaultReads = 1
              /\ extractor.default.some
              /\ result.val = from_json(extractor.default.v)

\* the primary chain of a non-nullable extractor gave an empty value, a
\* fallback chain gave an empty value too and a later one the result
C30_Witness ==
    /\ pc = "done"
    /\ ~extractor.nullable
    /\ result.ok
    /\ arm = "ok"
    /\ defaultReads = 0
    /\ Len(calls) >= 3
    /\ calls[2].res.ok
    /\ is_empty(calls[2].res.val)
    /\ ~is_empty(result.val)

\* a non-nullable extractor succeeds with the empty value of its default
C30_WitnessDefault ==
    /\ pc = "done"
    /\ ~extractor.nullable
    /\ result.ok
    /\ is_empty(result.val)
    /\ defaultReads = 1

====
